---------------------------- MODULE Spec2Model ----------------------------
(***************************************************************************)
(* Model of the MapleSniffer decryption core: the session table            *)
(* (Protocol::process), the per-direction TCP reassembler (TcpReasm), the  *)
(* handshake detector (Session::tryDetectHandshake) and the cipher-stream  *)
(* framer (MapleStream / MapleAES).                                        *)
(*                                                                         *)
(* Conventions.  Bytes are 0..255.  C arrays are 0-based, TLA+ sequences   *)
(* are 1-based: buf[i] of the source is buf[i+1] here.  A 32-bit unsigned  *)
(* sequence number is kept as the pair <<hi, lo>> of its 16-bit halves, so *)
(* that it keeps its width.  A std::vector<uint8_t> is a sequence of       *)
(* bytes; MapleStream::buffer_ is kept as its first cursor_ bytes (the     *)
(* bytes beyond cursor_ are never read).  Timestamps and hex dumps are     *)
(* display data and are left out of the packet record.                     *)
(***************************************************************************)
EXTENDS Integers, Sequences, FiniteSets, TLC

VARIABLES
    sessions_,       \* Protocol::sessions_: ConnectionKey -> Session handle
    heap,            \* the live Session objects, by handle
    nextSessionId_,  \* Protocol::nextSessionId_
    results,         \* the packet vector returned by the last call
    emitted,         \* every packet returned so far, in order (history)
    lastSeg,         \* the segment of the last process() call (history)
    budget,          \* calls the environment may still make
    crashed,         \* the process was aborted by undefined behaviour
    stream,          \* a MapleStream driven directly (SpecStream)
    input,           \* every byte appended to `stream` so far (history)
    reasm,           \* a TcpReasm driven directly (SpecReasm)
    drained,         \* bytes returned by the drains of `reasm` (history)
    trace,           \* [on, log]: the segments given so far, when recorded
    threads,         \* the threads calling process(): position and locals
    mutex_,          \* Protocol::mutex_: the thread that holds it, or Unlocked
    aesLoop,         \* the locals of a running MapleAES::transformAES call
    arrived,         \* stream offsets the segments given to `reasm` carried (history)
    app,             \* App's packet store: packets_, sessions_, the two counters
    reply            \* the array returned by the last App::getPackets (history)

vars == << sessions_, heap, nextSessionId_, results, emitted, lastSeg, budget,
           crashed, stream, input, reasm, drained, trace, threads, mutex_,
           aesLoop, arrived, app, reply >>

tableVars == << sessions_, heap, nextSessionId_, lastSeg >>
streamVars == << stream, input >>
reasmVars == << reasm, drained >>
threadVars == << threads, mutex_ >>
sideVars == << aesLoop, arrived, app, reply >>

\* no transformAES call is running
NoLoop == [dataSize |-> -1, requiredBlocks |-> 0, blockSize |-> 0, pos |-> 0,
           chunks |-> << >>]

\* no MapleStream (a null std::unique_ptr)
NoStream == [null |-> TRUE]

\* no Session (a null std::shared_ptr)
NoSession == 0

-----------------------------------------------------------------------------
(* Bytes and bit operations                                                *)

RECURSIVE XorBits(_, _, _)
XorBits(a, b, n) ==
    IF n = 0 THEN 0
    ELSE ((a + b) % 2) + 2 * XorBits(a \div 2, b \div 2, n - 1)

Xor8(a, b) == XorBits(a, b, 8)

Xor16(a, b) == XorBits(a, b, 16)

\* static_cast<uint8_t> of a value in -512..511
U8(x) == (x + 512) % 256

\* little-endian 16-bit read of p[i], p[i+1] (0-based i)
U16LE(p, i) == p[i + 1] + 256 * p[i + 2]

Drop(s, n) == SubSeq(s, n + 1, Len(s))

Take(s, n) == SubSeq(s, 1, n)

Min(a, b) == IF a < b THEN a ELSE b

Int32Max == 2147483647

-----------------------------------------------------------------------------
(* MapleAES                                                                *)

shuffleKey_ ==
    << 236, 63, 119, 164, 69, 208, 113, 191, 183, 152, 32, 252, 75, 233, 179, 225,
       92, 34, 247, 12, 68, 27, 129, 189, 99, 141, 212, 195, 242, 16, 25, 224,
       251, 161, 110, 102, 234, 174, 214, 206, 6, 24, 78, 235, 120, 149, 219, 186,
       182, 66, 122, 42, 131, 11, 84, 103, 109, 232, 101, 231, 47, 7, 243, 170,
       39, 123, 133, 176, 38, 253, 139, 169, 250, 190, 168, 215, 203, 204, 146, 218,
       249, 147, 96, 45, 221, 210, 162, 155, 57, 95, 130, 33, 76, 105, 248, 49,
       135, 238, 142, 173, 140, 106, 188, 181, 107, 89, 19, 241, 4, 0, 246, 90,
       53, 121, 72, 143, 21, 205, 151, 87, 18, 62, 55, 255, 157, 79, 81, 245,
       163, 112, 187, 20, 117, 194, 184, 114, 192, 237, 125, 104, 201, 46, 13, 98,
       70, 23, 17, 77, 108, 196, 126, 83, 193, 37, 199, 154, 28, 136, 88, 44,
       137, 220, 2, 100, 64, 1, 93, 56, 165, 226, 175, 85, 213, 239, 26, 124,
       167, 91, 166, 111, 134, 159, 115, 230, 10, 222, 43, 153, 74, 71, 156, 223,
       9, 118, 158, 48, 14, 228, 178, 148, 160, 59, 52, 29, 40, 15, 54, 227,
       35, 180, 3, 216, 144, 200, 60, 254, 94, 50, 36, 80, 31, 58, 67, 138,
       150, 65, 116, 172, 82, 51, 240, 217, 41, 128, 177, 22, 211, 171, 145, 185,
       132, 127, 97, 30, 207, 197, 209, 86, 61, 202, 244, 5, 198, 229, 8, 73 >>

defaultSecretKey_ ==
    << 19, 0, 0, 0, 8, 0, 0, 0, 6, 0, 0, 0, 180, 0, 0, 0,
       27, 0, 0, 0, 15, 0, 0, 0, 51, 0, 0, 0, 82, 0, 0, 0 >>

secretKeys_ ==
    <<
       << 41, 35, 190, 132, 225, 108, 214, 174, 82, 144, 73, 241, 241, 187, 233, 235, 179, 166, 219, 60, 135, 12, 62, 153, 36, 94, 13, 28, 6, 183, 71, 222 >>,
       << 179, 18, 77, 200, 67, 187, 139, 166, 31, 3, 90, 125, 9, 56, 37, 31, 93, 212, 203, 252, 150, 245, 69, 59, 19, 13, 137, 10, 28, 219, 174, 50 >>,
       << 136, 129, 56, 97, 107, 104, 18, 98, 249, 84, 208, 231, 113, 23, 72, 120, 13, 146, 41, 29, 134, 41, 153, 114, 219, 116, 28, 250, 79, 55, 184, 181 >>,
       << 32, 154, 80, 238, 64, 120, 54, 253, 18, 73, 50, 246, 158, 125, 73, 220, 173, 79, 20, 242, 68, 64, 102, 208, 107, 196, 48, 183, 50, 59, 161, 34 >>,
       << 246, 34, 145, 157, 225, 139, 31, 218, 176, 202, 153, 2, 185, 114, 157, 73, 44, 128, 126, 197, 153, 213, 233, 128, 178, 234, 201, 204, 83, 191, 103, 214 >>,
       << 191, 20, 214, 126, 45, 220, 142, 102, 131, 239, 87, 73, 97, 255, 105, 143, 97, 205, 209, 30, 157, 156, 22, 114, 114, 230, 29, 240, 132, 79, 74, 119 >>,
       << 2, 215, 232, 57, 44, 83, 203, 201, 18, 30, 51, 116, 158, 12, 244, 213, 212, 159, 212, 164, 89, 126, 53, 207, 50, 34, 244, 204, 207, 211, 144, 45 >>,
       << 72, 211, 143, 117, 230, 217, 29, 42, 229, 192, 247, 43, 120, 129, 135, 68, 14, 95, 80, 0, 212, 97, 141, 190, 123, 5, 21, 7, 59, 51, 130, 31 >>,
       << 24, 112, 146, 218, 100, 84, 206, 177, 133, 62, 105, 21, 248, 70, 106, 4, 150, 115, 14, 217, 22, 47, 103, 104, 212, 247, 74, 74, 208, 87, 104, 118 >>,
       << 91, 98, 138, 138, 143, 39, 92, 247, 229, 135, 74, 59, 50, 155, 97, 64, 132, 198, 195, 177, 167, 48, 74, 16, 238, 117, 111, 3, 47, 158, 106, 239 >>,
       << 118, 45, 208, 194, 201, 205, 104, 212, 73, 106, 121, 37, 8, 97, 64, 20, 177, 59, 106, 165, 17, 40, 193, 140, 214, 169, 11, 135, 151, 140, 47, 241 >>,
       << 16, 80, 155, 200, 129, 67, 41, 40, 138, 246, 233, 158, 71, 161, 129, 72, 49, 108, 205, 164, 158, 222, 129, 163, 140, 152, 16, 255, 154, 67, 205, 207 >>,
       << 94, 78, 225, 48, 156, 254, 217, 113, 159, 226, 165, 226, 12, 155, 180, 71, 101, 56, 42, 70, 137, 169, 130, 121, 122, 118, 120, 194, 99, 177, 38, 223 >>,
       << 218, 41, 109, 62, 98, 224, 150, 18, 52, 191, 57, 166, 63, 137, 94, 241, 109, 14, 227, 108, 40, 161, 30, 32, 29, 203, 194, 3, 63, 65, 7, 132 >>,
       << 15, 20, 5, 101, 27, 40, 97, 201, 197, 231, 44, 142, 70, 54, 8, 220, 243, 168, 141, 254, 190, 242, 235, 113, 255, 160, 208, 59, 117, 6, 140, 126 >>,
       << 135, 120, 115, 77, 208, 190, 130, 190, 219, 194, 70, 65, 43, 140, 250, 48, 127, 112, 240, 167, 84, 134, 50, 149, 170, 91, 104, 19, 11, 230, 252, 245 >>,
       << 202, 190, 125, 159, 137, 138, 65, 27, 253, 184, 79, 104, 246, 114, 123, 20, 153, 205, 211, 13, 240, 68, 58, 180, 166, 102, 83, 51, 11, 203, 161, 16 >>,
       << 94, 76, 236, 3, 76, 115, 230, 5, 180, 49, 14, 170, 173, 207, 213, 176, 202, 39, 255, 216, 157, 20, 77, 244, 121, 39, 89, 66, 124, 156, 193, 248 >>,
       << 205, 140, 135, 32, 35, 100, 184, 166, 135, 149, 76, 176, 90, 141, 78, 45, 153, 231, 61, 177, 96, 222, 177, 128, 173, 8, 65, 233, 103, 65, 165, 213 >>,
       << 159, 228, 24, 159, 21, 66, 0, 38, 254, 76, 209, 33, 4, 147, 47, 179, 143, 115, 83, 64, 67, 138, 175, 126, 202, 111, 213, 207, 211, 161, 149, 206 >>
    >>

Shuffle(b) == shuffleKey_[b + 1]

hexByteParse(table, i) == table[i + 1]

\* key[i*4] = seed[i] = keyBuffer[i*4], every other key byte 0
generateTWKey(version) ==
    LET keyBuffer == secretKeys_[(version % 20) + 1]
    IN  [k \in 1..32 |-> IF (k - 1) % 4 = 0 THEN hexByteParse(keyBuffer, k - 1) ELSE 0]

\* the version as passed in, whatever its sign as int16_t
keyVersionAsPassed(version) == version

\* the version used for key selection (constructor of MapleAES)
keyVersion(version) ==
    IF version >= 32768 THEN 65535 - version ELSE version

aesKeyFor(version, locale) ==
    IF locale = 6 THEN generateTWKey(keyVersion(version)) ELSE defaultSecretKey_

MapleAES(version, locale, iv) ==
    [version |-> version, iv |-> iv, aesKey |-> aesKeyFor(version, locale)]

confirmHeader(aes, buf) ==
    /\ Xor8(buf[1], aes.iv[3]) = aes.version % 256
    /\ Xor8(buf[2], aes.iv[4]) = (aes.version \div 256) % 256

getHeaderLength(buf) ==
    LET ivBytes == U16LE(buf, 0)
        xorredSize == U16LE(buf, 2)
        length == Xor16(xorredSize, ivBytes)
    IN  IF length = 65280 THEN 8 ELSE 4

getPacketLength(buf, bytesAvailable) ==
    IF bytesAvailable < 4 THEN bytesAvailable - 4
    ELSE LET ivBytes == U16LE(buf, 0)
             xorredSize == U16LE(buf, 2)
             length == Xor16(xorredSize, ivBytes)
         IN  IF length = 65280
             THEN IF bytesAvailable < 8 THEN bytesAvailable - 8
                  ELSE \* (bigLen ^ ivBytes) & 0x7FFFFFFF
                       Xor16(U16LE(buf, 4), ivBytes) + 65536 * buf[7]
                           + 16777216 * (buf[8] % 128)
             ELSE length

\* OpenSSL's AES-256-ECB encryption of one 16-byte block (EVP_EncryptUpdate).
\* The library is outside the repository; it is modelled as a fixed keyed
\* byte substitution, which keeps what the framer relies on: the output is a
\* function of the key and the input block only.
AesEcbBlock(key, block) ==
    LET k == (key[1] + key[5] + key[9] + key[13] + key[17] + key[21]
                + key[25] + key[29]) % 256
    IN  [i \in 1..16 |-> Shuffle((block[i] + k + i) % 256)]

AES_XOR_TABLE_BLOCKS == 92

RECURSIVE xorTableBlock(_, _, _)
\* block n (0-based) of the chained table: block 0 = ECB(ivBlock),
\* block n+1 = ECB(block n)
xorTableBlock(key, ivBlock, n) ==
    IF n = 0 THEN AesEcbBlock(key, ivBlock)
    ELSE AesEcbBlock(key, xorTableBlock(key, ivBlock, n - 1))

\* size of the chunk that holds data position pos (0-based), and the
\* position's index inside that chunk
firstChunk(dataSize) == Min(IF dataSize >= 65280 THEN 1452 ELSE 1456, dataSize)

xorIndex(pos, dataSize) ==
    IF pos < firstChunk(dataSize) THEN pos
    ELSE (pos - firstChunk(dataSize)) % 1460

\* one block too few for the table of a full 1460-byte chunk
requiredBlocksShort(dataSize) ==
    Min((dataSize \div 16) + 1, AES_XOR_TABLE_BLOCKS - 1)

\* the number of 16-byte keystream blocks the call generates
requiredBlocks(dataSize) ==
    Min((dataSize \div 16) + 1, AES_XOR_TABLE_BLOCKS)

\* the size of every chunk after the first: std::min(1460, dataSize - pos)
nextChunk(dataSize, pos) == Min(1460, dataSize - pos)

transformAES(aes, data) ==
    LET dataSize == Len(data)
        ivBlock == [i \in 1..16 |-> aes.iv[((i - 1) % 4) + 1]]
        table == [n \in 0..(requiredBlocks(dataSize) - 1) |->
                     xorTableBlock(aes.aesKey, ivBlock, n)]
        xorByte(idx) == table[idx \div 16][(idx % 16) + 1]
    IN  [p \in 1..dataSize |-> Xor8(data[p], xorByte(xorIndex(p - 1, dataSize)))]

morph(value, iv) ==
    LET \* ROL32 by 3 of n0 | n1<<8 | n2<<16 | n3<<24
        rol(n0, n1, n2, n3) ==
            << ((n0 * 8) % 256) + (n3 \div 32),
               ((n1 * 8) % 256) + (n0 \div 32),
               ((n2 * 8) % 256) + (n1 \div 32),
               ((n3 * 8) % 256) + (n2 \div 32) >>
        mix(tableInput, n0) ==
            rol(n0,
                U8(iv[2] - Xor8(iv[3], tableInput)),
                Xor8(iv[3], U8(Shuffle(iv[4]) + value)),
                U8(iv[4] - U8(n0 - tableInput)))
    IN  mix(Shuffle(value), U8(iv[1] + U8(Shuffle(iv[2]) - value)))

\* the old IV is morphed in place instead of the seed
shiftInPlace(iv) ==
    morph(iv[4], morph(iv[3], morph(iv[2], morph(iv[1], iv))))

shiftIV(iv) ==
    morph(iv[4], morph(iv[3], morph(iv[2], morph(iv[1], << 242, 83, 80, 198 >>))))

-----------------------------------------------------------------------------
(* MapleStream                                                             *)

DYNAMIC_OPCODE_BASE == 204

EmptyMap == [k \in {} |-> 0]

\* the 3DES key "BrN=r54jQp2@yP6G", expanded to 24 bytes (first 16 + first 8)
desKey ==
    LET keyStr == << 66, 114, 78, 61, 114, 53, 52, 106,
                     81, 112, 50, 64, 121, 80, 54, 71 >>
    IN  keyStr \o Take(keyStr, 8)

\* OpenSSL's 3DES-EDE-ECB decryption without padding (EVP_DecryptUpdate,
\* EVP_DecryptFinal_ex): whole 8-byte blocks are decrypted, a trailing partial
\* block yields nothing.  The cipher itself is outside the repository and is
\* modelled as a keyed byte-wise bijection.
DesDecrypt(data, decryptLen) ==
    LET totalLen == (decryptLen \div 8) * 8
    IN  [i \in 1..totalLen |-> Xor8(data[i], desKey[((i - 1) % 24) + 1])]

RECURSIVE SplitTokens(_)
\* the tokens std::getline(iss, token, '|') yields, in order
SplitTokens(s) ==
    IF Len(s) = 0 THEN << >>
    ELSE IF \E i \in 1..Len(s) : s[i] = 124
         THEN LET i == CHOOSE j \in 1..Len(s) :
                           s[j] = 124 /\ \A k \in 1..(j - 1) : s[k] # 124
              IN  << Take(s, i - 1) >> \o SplitTokens(Drop(s, i))
         ELSE << s >>

IsSpace(c) == c \in {32, 9, 10, 11, 12, 13}

IsDigit(c) == c >= 48 /\ c <= 57

RECURSIVE SkipSpace(_)
SkipSpace(s) == IF Len(s) > 0 /\ IsSpace(s[1]) THEN SkipSpace(Tail(s)) ELSE s

RECURSIVE DigitRun(_)
DigitRun(s) ==
    IF Len(s) > 0 /\ IsDigit(s[1]) THEN << s[1] - 48 >> \o DigitRun(Tail(s))
    ELSE << >>

RECURSIVE Magnitude(_, _)
\* the value of a digit run, or -1 when it exceeds INT_MAX
Magnitude(digits, acc) ==
    IF Len(digits) = 0 THEN acc
    ELSE IF acc > (Int32Max - digits[1]) \div 10 THEN -1
         ELSE Magnitude(Tail(digits), acc * 10 + digits[1])

\* std::stoi: leading whitespace, an optional sign, a run of digits; anything
\* after the digits is ignored.  No digit: std::invalid_argument; out of the
\* range of int: std::out_of_range.
stoi(token) ==
    LET s == SkipSpace(token)
        signed == Len(s) > 0 /\ s[1] \in {43, 45}
        negative == Len(s) > 0 /\ s[1] = 45
        digits == DigitRun(IF signed THEN Tail(s) ELSE s)
        mag == Magnitude(digits, 0)
    IN  IF Len(digits) = 0 THEN [ok |-> FALSE, value |-> 0]
        ELSE IF mag < 0
             THEN IF negative /\ Magnitude(Take(digits, Len(digits) - 1), 0) = 214748364
                                 /\ digits[Len(digits)] = 8
                  THEN [ok |-> TRUE, value |-> (-Int32Max) - 1]
                  ELSE [ok |-> FALSE, value |-> 0]
             ELSE [ok |-> TRUE, value |-> IF negative THEN -mag ELSE mag]

RECURSIVE parseTokensReject(_, _, _)
\* the whole table is rejected when the scan stops before the last token
parseTokensReject(tokens, index, result) ==
    IF Len(tokens) = 0 THEN result
    ELSE IF \/ Len(tokens[1]) = 0
            \/ ~stoi(tokens[1]).ok
            \/ stoi(tokens[1]).value \in DOMAIN result
         THEN EmptyMap
         ELSE parseTokensReject(Tail(tokens), index + 1,
                  result @@ (stoi(tokens[1]).value
                                 :> ((index + DYNAMIC_OPCODE_BASE) % 65536)))

RECURSIVE parseTokens(_, _, _)
parseTokens(tokens, index, result) ==
    IF Len(tokens) = 0 THEN result
    ELSE LET token == tokens[1]
             n == stoi(token)
         IN  IF Len(token) = 0 THEN result
             ELSE IF ~n.ok THEN result
             ELSE IF n.value \in DOMAIN result THEN result
             ELSE parseTokens(Tail(tokens), index + 1,
                      result @@ (n.value :> ((index + DYNAMIC_OPCODE_BASE) % 65536)))

parseOpcodeEncryption(data, dataLen, bufferSize) ==
    LET decryptLen == Min(bufferSize, dataLen)
        opcodeStr == DesDecrypt(data, decryptLen)
    IN  parseTokens(SplitTokens(opcodeStr), 0, EmptyMap)

\* int32_t bufferSize = payload[0] | payload[1] << 8 | payload[2] << 16 | payload[3] << 24
bufferSizeOf(payload) ==
    IF payload[4] >= 128 THEN -1   \* negative: only its sign is used
    ELSE payload[1] + 256 * payload[2] + 65536 * payload[3] + 16777216 * payload[4]

\* the outbound stream takes the data shift as well
MapleStreamShiftBoth(outbound, build, locale, iv, extraCipher) ==
    [outbound |-> outbound,
     aes |-> MapleAES(IF outbound THEN build ELSE 65535 - build, locale, iv),
     useNewDataShift_ |-> extraCipher,
     buffer_ |-> << >>,
     expectedDataSize_ |-> 4,
     opcodeEncrypted_ |-> FALSE,
     encryptedOpcodes_ |-> EmptyMap,
     dead_ |-> FALSE]

MapleStream(outbound, build, locale, iv, extraCipher) ==
    [outbound |-> outbound,
     aes |-> MapleAES(IF outbound THEN build ELSE 65535 - build, locale, iv),
     useNewDataShift_ |-> extraCipher /\ ~outbound,
     buffer_ |-> << >>,
     expectedDataSize_ |-> 4,
     opcodeEncrypted_ |-> FALSE,
     encryptedOpcodes_ |-> EmptyMap,
     dead_ |-> FALSE]

\* cursor_ is the number of buffered bytes
cursor_(s) == Len(s.buffer_)

append(s, data) ==
    IF Len(data) <= 0 THEN s
    ELSE [s EXCEPT !.buffer_ = @ \o data]

DecryptedPacket(outbound, opcode, payload, length) ==
    [outbound |-> outbound, opcode |-> opcode, payload |-> payload,
     length |-> length, isHandshake |-> FALSE, isDeadNotification |-> FALSE,
     sessionId |-> 0, serverPort |-> 0,
     version |-> 0, subVersionStr |-> << >>, locale |-> 0]

\* tryRead returns the stream after the call, the packet (a sequence of one
\* packet, empty for std::nullopt), whether
\* the header check was reached and failed, and whether the computation of
\* packetSize + headerLength overflowed int (undefined behaviour).
NoRead(s) == [stream |-> s, pkt |-> << >>, mismatch |-> FALSE, ub |-> FALSE]

\* the header check failed and the buffered bytes are thrown away
HeaderMismatchFlush(s) ==
    [stream |-> [s EXCEPT !.buffer_ = << >>], pkt |-> << >>, mismatch |-> TRUE,
     ub |-> FALSE]

\* the header check failed
HeaderMismatch(s) == [stream |-> s, pkt |-> << >>, mismatch |-> TRUE, ub |-> FALSE]

\* int addition packetSize + headerLength as an execution that wraps computes it
WrapAdd(packetSize, headerLength) ==
    IF packetSize > Int32Max - headerLength
    THEN (((packetSize - Int32Max) + headerLength) - Int32Max) - 2
    ELSE packetSize + headerLength

decryptPayload(s, packetBuffer) ==
    IF s.useNewDataShift_
    THEN [i \in 1..Len(packetBuffer) |-> U8(packetBuffer[i] - s.aes.iv[1])]
    ELSE transformAES(s.aes, packetBuffer)

\* no opcode is replaced
replaceNever(s, opcode) == opcode

\* the opcode after the outbound replacement
replaceOpcode(s, opcode) ==
    IF s.opcodeEncrypted_ /\ s.outbound /\ opcode \in DOMAIN s.encryptedOpcodes_
    THEN s.encryptedOpcodes_[opcode]
    ELSE opcode

\* length field of a decoded packet
packetLength(payload) == Len(payload)

isOpcodeEncryption(s, opcode, payload) ==
    /\ ~s.outbound /\ opcode = 70 /\ Len(payload) >= 4
    /\ bufferSizeOf(payload) > 0
    /\ Len(payload) - 4 >= bufferSizeOf(payload)

\* the stream after the opcode-encryption check of a decoded packet
installOpcodes(s, opcode, payload) ==
    IF isOpcodeEncryption(s, opcode, payload)
    THEN [s EXCEPT !.encryptedOpcodes_ =
                       parseOpcodeEncryption(Drop(payload, 4), Len(payload) - 4,
                                             bufferSizeOf(payload)),
                   !.opcodeEncrypted_ = TRUE]
    ELSE s

\* the value tryRead returns for a decoded packet
builtPacket(s, opcode, payload) ==
    [stream |-> s,
     pkt |-> << DecryptedPacket(s.outbound, replaceOpcode(s, opcode), payload,
                                packetLength(payload)) >>,
     mismatch |-> FALSE, ub |-> FALSE]

\* opcode and payload of the decrypted bytes, then the opcode handling
decodedPacket(s, packetSize, plain) ==
    LET opcode == IF packetSize >= 2 THEN U16LE(plain, 0) ELSE 0
        payload == IF packetSize > 2 THEN Drop(plain, 2) ELSE << >>
    IN  builtPacket(installOpcodes(s, opcode, payload), opcode, payload)

\* the whole buffer is dropped with the frame
consumedAll(s, total) ==
    [s EXCEPT !.aes.iv = shiftIV(@),
              !.buffer_ = << >>,
              !.expectedDataSize_ = 4]

\* the IV is shifted, the frame leaves the buffer, expectedDataSize_ is reset
consumed(s, total) ==
    [s EXCEPT !.aes.iv = shiftIV(@),
              !.buffer_ = Drop(@, total),
              !.expectedDataSize_ = 4]

readPacket(s, headerLength, packetSize) ==
    decodedPacket(consumed(s, packetSize + headerLength), packetSize,
        decryptPayload(s, SubSeq(s.buffer_, headerLength + 1,
                                 packetSize + headerLength)))

\* tryRead once the header length and the packet length are known
sizedRead(s, headerLength, packetSize) ==
    IF packetSize > Int32Max - headerLength
    THEN [NoRead([s EXCEPT !.expectedDataSize_ = WrapAdd(packetSize, headerLength)])
             EXCEPT !.ub = TRUE]
    ELSE IF cursor_(s) < WrapAdd(packetSize, headerLength)
         THEN NoRead([s EXCEPT !.expectedDataSize_ = WrapAdd(packetSize, headerLength)])
         ELSE readPacket(s, headerLength, packetSize)

tryRead(s) ==
    IF cursor_(s) < s.expectedDataSize_ THEN NoRead(s)
    ELSE IF ~confirmHeader(s.aes, s.buffer_) THEN HeaderMismatch(s)
    ELSE IF cursor_(s) < getHeaderLength(s.buffer_)
         THEN NoRead([s EXCEPT !.expectedDataSize_ = getHeaderLength(s.buffer_)])
         ELSE sizedRead(s, getHeaderLength(s.buffer_),
                        getPacketLength(s.buffer_, cursor_(s)))

\* MapleStream::isDead(): the stream is dead once a header check has failed.
isDead(s) == s.dead_

\* a failed header check marks the stream dead
markDead(r) == IF r.mismatch THEN [r EXCEPT !.stream.dead_ = TRUE] ELSE r

\* tryRead together with the dead flag it maintains
tryReadDead(s) == markDead(tryRead(s))

-----------------------------------------------------------------------------
(* TcpReasm                                                                *)

\* uint32_t arithmetic on <<hi, lo>> pairs
SeqAdd(s, n) ==
    LET t == s[2] + (n % 65536)
    IN  << (s[1] + (n \div 65536) + (t \div 65536)) % 65536, t % 65536 >>

SeqSub(a, b) ==
    LET l == a[2] - b[2]
    IN  << (a[1] - b[1] - (IF l < 0 THEN 1 ELSE 0) + 65536) % 65536,
           (l + 65536) % 65536 >>

\* a - b <= 0 on the unsigned difference
UnsignedLeq0(d) == d = << 0, 0 >>

\* static_cast<int32_t>(a - b) <= 0
SignedLeq0(d) == d[1] >= 32768 \/ d = << 0, 0 >>

\* operator< of uint32_t keys (the iteration order of std::map)
KeyLess(a, b) == a[1] < b[1] \/ (a[1] = b[1] /\ a[2] < b[2])

\* a uint32_t below 2^31 as a number
SeqToInt(d) == d[1] * 65536 + d[2]

NewReasm == [nextSeq |-> << 0, 0 >>, initialized |-> FALSE,
             staged |-> [k \in {} |-> << >>]]

init(r, seq) == [r EXCEPT !.nextSeq = seq, !.initialized = TRUE]

\* a staged segment of the same length is overwritten as well
replacesEqual(staged, seq, len) ==
    seq \notin DOMAIN staged \/ Len(staged[seq]) <= len

\* whether addSegment stores the segment: no segment staged at seq, or a
\* strictly shorter one
replaces(staged, seq, len) ==
    seq \notin DOMAIN staged \/ Len(staged[seq]) < len

addSegment(r, seq, data) ==
    IF Len(data) <= 0 THEN r
    ELSE LET r1 == IF ~r.initialized
                   THEN [r EXCEPT !.initialized = TRUE, !.nextSeq = seq]
                   ELSE r
         IN  IF replaces(r1.staged, seq, Len(data))
             THEN [r1 EXCEPT !.staged = (seq :> data) @@ @]
             ELSE r1

Erase(staged, seq) == [k \in (DOMAIN staged) \ {seq} |-> staged[k]]

FirstKey(keys) == CHOOSE k \in keys : \A j \in keys : j = k \/ KeyLess(k, j)

RECURSIVE scanStaged(_, _, _)
\* one pass of the inner for loop over the keys not yet visited: erase the
\* segments that end at or before nextSeq, stop at the first deliverable one
\* (next is << key >>, or << >> for staged.end())
scanStaged(staged, keys, nextSeq) ==
    IF keys = {} THEN [staged |-> staged, next |-> << >>]
    ELSE LET k == FirstKey(keys)
             segEnd == SeqAdd(k, Len(staged[k]))
         IN  IF SignedLeq0(SeqSub(segEnd, nextSeq))
             THEN scanStaged(Erase(staged, k), keys \ {k}, nextSeq)
             ELSE IF SignedLeq0(SeqSub(k, nextSeq))
                  THEN [staged |-> staged, next |-> << k >>]
                  ELSE scanStaged(staged, keys \ {k}, nextSeq)

\* no segment is ever kept pending
holdsNever(holdLast, staged) == FALSE

\* the last two remaining segments are kept pending
holdsTwo(holdLast, staged) == holdLast /\ Cardinality(DOMAIN staged) <= 2

\* holdLast: keep the last remaining segment pending
holds(holdLast, staged) == holdLast /\ Cardinality(DOMAIN staged) <= 1

\* the whole segment, the bytes already delivered included
allBytes(data, offset) == data

\* the new bytes of a segment: the overlap at its beginning is skipped
newBytes(data, offset) == Drop(data, offset)

RECURSIVE drainLoop(_, _, _)
drainLoop(r, holdLast, result) ==
    LET sc == scanStaged(r.staged, DOMAIN r.staged, r.nextSeq)
        r1 == [r EXCEPT !.staged = sc.staged]
    IN  IF Len(sc.next) = 0 THEN [reasm |-> r1, result |-> result]
        ELSE IF holds(holdLast, r1.staged) THEN [reasm |-> r1, result |-> result]
        ELSE LET next == sc.next[1]
                 data == r1.staged[next]
                 offset == SeqToInt(SeqSub(r1.nextSeq, next))
             IN  drainLoop([r1 EXCEPT !.nextSeq = SeqAdd(next, Len(data)),
                                       !.staged = Erase(r1.staged, next)],
                           holdLast, result \o newBytes(data, offset))

drain(r, holdLast) == drainLoop(r, holdLast, << >>)

-----------------------------------------------------------------------------
(* Session                                                                 *)

LOGIN_PORT == 8484

NewSession(id) ==
    [sessionId_ |-> id, serverIP |-> 0, serverPort |-> 0, clientPort |-> 0,
     initialized_ |-> FALSE, terminated_ |-> FALSE, isLoginServer_ |-> FALSE,
     deadNotified_ |-> FALSE,
     version_ |-> 0, subVersionStr_ |-> << >>, locale_ |-> 0,
     sendIV_ |-> << 0, 0, 0, 0 >>, recvIV_ |-> << 0, 0, 0, 0 >>,
     serverReasm_ |-> NewReasm, clientReasm_ |-> NewReasm,
     pendingInbound_ |-> << >>, pendingOutbound_ |-> << >>,
     lastServerSeqEnd_ |-> << 0, 0 >>, lastClientSeqEnd_ |-> << 0, 0 >>,
     outboundStream_ |-> NoStream, inboundStream_ |-> NoStream]

\* a SYN that leaves the client reassembler unseeded
initClientSeqUnseeded(sess, seq) == sess

\* void initClientSeq(uint32_t seq) { clientReasm_.init(seq); }
initClientSeq(sess, seq) == [sess EXCEPT !.clientReasm_ = init(@, seq)]

initServerSeq(sess, seq) == [sess EXCEPT !.serverReasm_ = init(@, seq)]

RECURSIVE to_string(_)
\* std::to_string of a non-negative int, as ASCII digits
to_string(n) ==
    IF n < 10 THEN << 48 + n >>
    ELSE to_string(n \div 10) \o << 48 + (n % 10) >>

Rejected == [ok |-> FALSE]

\* the fields read by the standard form (size > 0x10)
parseStandard(p, totalLen) ==
    IF totalLen < 2 + 13 THEN Rejected
    ELSE LET strLen == U16LE(p, 4)
         IN  IF strLen > 100 \/ totalLen < 6 + strLen + 4 + 4 + 1 THEN Rejected
             ELSE [ok |-> TRUE, version |-> U16LE(p, 2),
                   patchLocation |-> SubSeq(p, 7, 6 + strLen),
                   localIV |-> SubSeq(p, 7 + strLen, 10 + strLen),
                   remoteIV |-> SubSeq(p, 11 + strLen, 14 + strLen),
                   serverLocale |-> p[15 + strLen]]

\* the fields read by the old/short form
parseShort(p, totalLen) ==
    IF totalLen < 2 + 16 THEN Rejected
    ELSE [ok |-> TRUE, version |-> U16LE(p, 2),
          patchLocation |-> to_string(U16LE(p, 6) + 1),
          localIV |-> SubSeq(p, 9, 12),
          remoteIV |-> SubSeq(p, 13, 16),
          serverLocale |-> p[17]]

\* the fields of either form, whatever the locale byte
parseAnyLocale(p) ==
    IF Len(p) < 4 \/ Len(p) < 2 + U16LE(p, 0) THEN Rejected
    ELSE IF U16LE(p, 0) > 16 THEN parseStandard(p, Len(p))
    ELSE parseShort(p, Len(p))

\* the handshake fields tryDetectHandshake accepts
parseHandshake(p) ==
    LET totalLen == Len(p)
    IN  IF totalLen < 4 THEN Rejected
        ELSE LET size == U16LE(p, 0)
                 hsTotal == 2 + size
             IN  IF totalLen < hsTotal THEN Rejected
                 ELSE LET f == IF size > 16 THEN parseStandard(p, totalLen)
                                            ELSE parseShort(p, totalLen)
                      IN  IF ~f.ok THEN Rejected
                          ELSE IF f.serverLocale > 18 \/ f.serverLocale = 0
                               THEN Rejected
                          ELSE f

\* the whole buffer is erased, the bytes behind the handshake included
hsTotalAll(p) == Len(p)

\* the bytes erased from pendingInbound_ on success
hsTotalOf(p) == 2 + U16LE(p, 0)

tryDetectHandshake(sess) ==
    LET p == sess.pendingInbound_
        f == parseHandshake(p)
    IN  IF ~f.ok THEN [session |-> sess, pkt |-> << >>]
        ELSE LET extraCipher == f.serverLocale = 6
                                  /\ \A i \in 1..Len(f.patchLocation) :
                                         f.patchLocation[i] # 58
                 hsTotal == hsTotalOf(p)
                 s1 == [sess EXCEPT
                          !.version_ = f.version,
                          !.locale_ = f.serverLocale,
                          !.subVersionStr_ = f.patchLocation,
                          !.isLoginServer_ = (sess.serverPort = LOGIN_PORT),
                          !.sendIV_ = f.localIV,
                          !.recvIV_ = f.remoteIV,
                          !.outboundStream_ = MapleStream(TRUE, f.version,
                              f.serverLocale, f.localIV, extraCipher),
                          !.inboundStream_ = MapleStream(FALSE, f.version,
                              f.serverLocale, f.remoteIV, extraCipher),
                          !.initialized_ = TRUE,
                          !.pendingInbound_ = Drop(p, hsTotal)]
                 hsPkt == [DecryptedPacket(FALSE, 65535, << >>, hsTotal) EXCEPT
                             !.isHandshake = TRUE,
                             !.version = f.version,
                             !.subVersionStr = f.patchLocation,
                             !.locale = f.serverLocale,
                             !.sessionId = sess.sessionId_,
                             !.serverPort = sess.serverPort]
             IN  [session |-> s1, pkt |-> << hsPkt >>]

streamOf(sess, outbound) ==
    IF outbound THEN sess.outboundStream_ ELSE sess.inboundStream_

setStream(sess, outbound, s) ==
    IF outbound THEN [sess EXCEPT !.outboundStream_ = s]
    ELSE [sess EXCEPT !.inboundStream_ = s]

\* the mapping of a 0x46 packet is not installed on the outbound stream
propagateNothing(sess, pkt) == sess

\* propagate opcode encryption from inbound to outbound (feedStream)
propagateOpcodes(sess, pkt) ==
    IF /\ ~pkt.outbound /\ pkt.opcode = 70
       /\ sess.outboundStream_ # NoStream /\ Len(pkt.payload) >= 4
       /\ bufferSizeOf(pkt.payload) > 0
       /\ Len(pkt.payload) - 4 >= bufferSizeOf(pkt.payload)
    THEN [sess EXCEPT
            !.outboundStream_.opcodeEncrypted_ = TRUE,
            !.outboundStream_.encryptedOpcodes_ =
                parseOpcodeEncryption(Drop(pkt.payload, 4), Len(pkt.payload) - 4,
                                      bufferSizeOf(pkt.payload))]
    ELSE sess

\* the packet is inserted at the front of the result vector
pushFront(acc, pkt) == << pkt >> \o acc

\* results.push_back(pkt)
push_back(acc, pkt) == Append(acc, pkt)

\* pkt->sessionId = sessionId_; pkt->serverPort = serverPort
tagged(sess, pkt) ==
    [pkt EXCEPT !.sessionId = sess.sessionId_, !.serverPort = sess.serverPort]

\* the session after one packet was read from a stream
afterPacket(sess, outbound, r) ==
    propagateOpcodes(setStream(sess, outbound, r.stream), r.pkt[1])

RECURSIVE readFrom(_, _, _, _)
\* the while (true) loop of feedStream, r being the result of the tryRead
\* of the current iteration
readFrom(sess, outbound, acc, r) ==
    IF Len(r.pkt) = 0
    THEN [session |-> setStream(sess, outbound, r.stream), results |-> acc,
          ub |-> r.ub]
    ELSE readFrom(afterPacket(sess, outbound, r), outbound,
                  push_back(acc, tagged(sess, r.pkt[1])),
                  tryReadDead(streamOf(afterPacket(sess, outbound, r), outbound)))

readLoop(sess, outbound, acc) ==
    readFrom(sess, outbound, acc, tryReadDead(streamOf(sess, outbound)))

\* whether feedStream emits the dead notification
notifiesDead(sess, outbound) ==
    isDead(streamOf(sess, outbound)) /\ ~sess.deadNotified_

deadPkt(sess, outbound) ==
    [DecryptedPacket(outbound, 0, << >>, 0) EXCEPT
        !.isDeadNotification = TRUE,
        !.sessionId = sess.sessionId_,
        !.serverPort = sess.serverPort]

\* emit the dead notification if the stream just desynchronized
notified(r, outbound) ==
    IF notifiesDead(r.session, outbound)
    THEN [session |-> [r.session EXCEPT !.deadNotified_ = TRUE],
          results |-> push_back(r.results, deadPkt(r.session, outbound)),
          ub |-> r.ub]
    ELSE r

\* nothing is fed to a stream once the other stream of the session is dead
feedStreamAlone(sess, outbound, data) ==
    IF \/ streamOf(sess, outbound) = NoStream
       \/ Len(data) <= 0
       \/ (streamOf(sess, ~outbound) # NoStream /\ isDead(streamOf(sess, ~outbound)))
    THEN [session |-> sess, results |-> << >>, ub |-> FALSE]
    ELSE notified(readLoop(setStream(sess, outbound,
                                     append(streamOf(sess, outbound), data)),
                           outbound, << >>),
                  outbound)

feedStream(sess, outbound, data) ==
    IF streamOf(sess, outbound) = NoStream \/ Len(data) <= 0
    THEN [session |-> sess, results |-> << >>, ub |-> FALSE]
    ELSE notified(readLoop(setStream(sess, outbound,
                                     append(streamOf(sess, outbound), data)),
                           outbound, << >>),
                  outbound)

\* the direction processSegment assigns to a segment
isFromServer(sess, seg) ==
    IF sess.initialized_
    THEN seg.srcIP = sess.serverIP /\ seg.srcPort = sess.serverPort
    ELSE ~(sess.clientPort # 0 /\ seg.srcPort = sess.clientPort)

\* serverReasm_.init(lastServerSeqEnd_);
\* if (lastClientSeqEnd_ != 0) clientReasm_.init(lastClientSeqEnd_)
seedReasm(sess) ==
    [sess EXCEPT
        !.serverReasm_ = init(@, sess.lastServerSeqEnd_),
        !.clientReasm_ = IF sess.lastClientSeqEnd_ # << 0, 0 >>
                         THEN init(@, sess.lastClientSeqEnd_)
                         ELSE @]

\* feed the bytes left in pendingInbound_, then clear the buffer
feedPendingInbound(sess) ==
    IF Len(sess.pendingInbound_) > 0 /\ sess.inboundStream_ # NoStream
    THEN [feedStream(sess, FALSE, sess.pendingInbound_)
             EXCEPT !.session.pendingInbound_ = << >>]
    ELSE [session |-> sess, results |-> << >>, ub |-> FALSE]

\* feed the buffered outbound bytes, then clear the buffer
feedPendingOutbound(sess) ==
    IF Len(sess.pendingOutbound_) > 0 /\ sess.outboundStream_ # NoStream
    THEN [feedStream(sess, TRUE, sess.pendingOutbound_)
             EXCEPT !.session.pendingOutbound_ = << >>]
    ELSE [session |-> sess, results |-> << >>, ub |-> FALSE]

\* the handshake packet, the inbound packets, then the outbound packets
handshakeResults(hsPkt, fin, fout) ==
    [session |-> fout.session,
     results |-> << hsPkt >> \o fin.results \o fout.results,
     ub |-> fin.ub \/ fout.ub]

feedPending(hsPkt, fin) ==
    handshakeResults(hsPkt, fin, feedPendingOutbound(fin.session))

\* after a detected handshake: seed the reassemblers, feed the remaining
\* inbound bytes, then the buffered outbound bytes
afterHandshake(sess, hsPkt) ==
    feedPending(hsPkt, feedPendingInbound(seedReasm(sess)))

\* the server endpoint is learned from the first inbound segment
learnServer(sess, seg) ==
    IF sess.serverIP = 0
    THEN [sess EXCEPT !.serverIP = seg.srcIP, !.serverPort = seg.srcPort]
    ELSE sess

\* the payload takes the place of the inbound bytes buffered so far
replaceInbound(sess, seg) ==
    [sess EXCEPT !.pendingInbound_ = seg.payload,
                 !.lastServerSeqEnd_ = SeqAdd(seg.seq, Len(seg.payload))]

bufferInbound(sess, seg) ==
    [sess EXCEPT !.pendingInbound_ = @ \o seg.payload,
                 !.lastServerSeqEnd_ = SeqAdd(seg.seq, Len(seg.payload))]

bufferOutbound(sess, seg) ==
    [sess EXCEPT !.pendingOutbound_ = @ \o seg.payload,
                 !.lastClientSeqEnd_ = SeqAdd(seg.seq, Len(seg.payload))]

\* the buffered inbound bytes are dropped when the detector rejects them
onHandshakeDiscard(sess, hs) ==
    IF Len(hs.pkt) > 0 THEN afterHandshake(hs.session, hs.pkt[1])
    ELSE [session |-> [sess EXCEPT !.pendingInbound_ = << >>],
          results |-> << >>, ub |-> FALSE]

\* the outcome of tryDetectHandshake on the buffered inbound bytes
onHandshake(sess, hs) ==
    IF Len(hs.pkt) > 0 THEN afterHandshake(hs.session, hs.pkt[1])
    ELSE [session |-> sess, results |-> << >>, ub |-> FALSE]

detectHandshake(sess) == onHandshake(sess, tryDetectHandshake(sess))

beforeHandshake(sess, seg) ==
    IF isFromServer(sess, seg)
    THEN detectHandshake(bufferInbound(learnServer(sess, seg), seg))
    ELSE [session |-> bufferOutbound(sess, seg), results |-> << >>, ub |-> FALSE]

\* the last staged segment of the outbound direction is held back as well
holdAlways(fromServer) == TRUE

\* the hold policy of a direction: holdLast = true for inbound
holdPolicy(fromServer) == fromServer

reasmOf(sess, fromServer) ==
    IF fromServer THEN sess.serverReasm_ ELSE sess.clientReasm_

\* the drained bytes go to the stream of the segment's direction
feedDrained(sess, fromServer, d) ==
    IF Len(d.result) = 0
    THEN [session |-> IF fromServer THEN [sess EXCEPT !.serverReasm_ = d.reasm]
                      ELSE [sess EXCEPT !.clientReasm_ = d.reasm],
          results |-> << >>, ub |-> FALSE]
    ELSE feedStream(IF fromServer THEN [sess EXCEPT !.serverReasm_ = d.reasm]
                    ELSE [sess EXCEPT !.clientReasm_ = d.reasm],
                    ~fromServer, d.result)

afterInit(sess, seg) ==
    feedDrained(sess, isFromServer(sess, seg),
        drain(addSegment(reasmOf(sess, isFromServer(sess, seg)), seg.seq, seg.payload),
              holdPolicy(isFromServer(sess, seg))))

\* the detector is run whether or not the session is initialized
processSegmentRedetect(sess, seg) ==
    IF sess.terminated_ \/ Len(seg.payload) <= 0
    THEN [session |-> sess, results |-> << >>, ub |-> FALSE]
    ELSE beforeHandshake(sess, seg)

processSegment(sess, seg) ==
    IF sess.terminated_ \/ Len(seg.payload) <= 0
    THEN [session |-> sess, results |-> << >>, ub |-> FALSE]
    ELSE IF ~sess.initialized_ THEN beforeHandshake(sess, seg)
    ELSE afterInit(sess, seg)

-----------------------------------------------------------------------------
(* Protocol                                                                *)

\* big-endian fields of a frame, at a 0-based offset
BE16At(data, i) == data[i + 1] * 256 + data[i + 2]

\* addresses below 2^31 only: the frames of this development use such
BE32At(data, i) == BE16At(data, i) * 65536 + BE16At(data, i + 2)

bitSet(flags, mask) == (flags \div mask) % 2 = 1

NotTcp == [ok |-> FALSE]

\* the segment parseTcp fills in, TCP header at offset tcp
parsedSegment(data, ip, tcp, tcpHeaderLen) ==
    [ok |-> TRUE,
     seg |-> [srcIP |-> BE32At(data, ip + 12), dstIP |-> BE32At(data, ip + 16),
              srcPort |-> BE16At(data, tcp), dstPort |-> BE16At(data, tcp + 2),
              payload |-> Drop(data, tcp + tcpHeaderLen),
              seq |-> << BE16At(data, tcp + 4), BE16At(data, tcp + 6) >>,
              syn |-> bitSet(data[tcp + 14], 2), ack |-> bitSet(data[tcp + 14], 16),
              fin |-> bitSet(data[tcp + 14], 1), rst |-> bitSet(data[tcp + 14], 4)]]

parseTcpHeader(data, ip, tcp) ==
    IF Len(data) - tcp < 20 THEN NotTcp
    ELSE IF Len(data) - tcp < (data[tcp + 13] \div 16) * 4 THEN NotTcp
    ELSE parsedSegment(data, ip, tcp, (data[tcp + 13] \div 16) * 4)

parseIp(data, ip) ==
    IF Len(data) - ip < 20 THEN NotTcp
    ELSE IF data[ip + 1] \div 16 # 4 THEN NotTcp
    ELSE IF Len(data) - ip < (data[ip + 1] % 16) * 4 THEN NotTcp
    ELSE IF data[ip + 10] # 6 THEN NotTcp
    ELSE parseTcpHeader(data, ip, ip + (data[ip + 1] % 16) * 4)

\* Ethernet II, IPv4, TCP
parseTcp(data) ==
    IF Len(data) < 14 THEN NotTcp
    ELSE IF BE16At(data, 12) # 2048 THEN NotTcp
    ELSE parseIp(data, 14)

ConnectionKey(srcIP, dstIP, srcPort, dstPort) == << srcIP, dstIP, srcPort, dstPort >>

reverse(key) == << key[2], key[1], key[4], key[3] >>

fwdKeyOf(seg) == ConnectionKey(seg.srcIP, seg.dstIP, seg.srcPort, seg.dstPort)

\* the forward key only
findForward(table, seg) ==
    IF fwdKeyOf(seg) \in DOMAIN table THEN table[fwdKeyOf(seg)] ELSE NoSession

\* the Session a segment resolves to: forward key first, then reverse key
findSession(table, seg) ==
    IF fwdKeyOf(seg) \in DOMAIN table THEN table[fwdKeyOf(seg)]
    ELSE IF reverse(fwdKeyOf(seg)) \in DOMAIN table THEN table[reverse(fwdKeyOf(seg))]
    ELSE NoSession

\* erase only the first key that points to the session
eraseFirstKey(table, id) ==
    LET keys == {j \in DOMAIN table : table[j] = id}
        first == CHOOSE k \in keys : \A j \in keys : j = k \/ k[1] < j[1]
                     \/ (k[1] = j[1] /\ k[3] <= j[3])
    IN  [k \in (DOMAIN table) \ {first} |-> table[k]]

\* erase every key that points to the session
eraseSession(table, id) ==
    [k \in {j \in DOMAIN table : table[j] # id} |-> table[k]]

\* sessions_[key] = id
assign(table, key, id) == (key :> id) @@ table

\* if (sessions_.find(key) == sessions_.end()) sessions_[key] = id
insertIfAbsent(table, key, id) ==
    IF key \in DOMAIN table THEN table ELSE assign(table, key, id)

\* the Session objects still referenced by the table (std::shared_ptr)
liveObjects(table, objects) ==
    [id \in {i \in DOMAIN objects : \E k \in DOMAIN table : table[k] = i} |-> objects[id]]

isFinRst(seg) == (seg.fin \/ seg.rst) /\ findSession(sessions_, seg) # NoSession

\* the server key and client key registered once the session is initialized
registerKeys(table, sess, seg) ==
    IF sess.initialized_ /\ sess.serverIP # 0
    THEN LET serverKey == ConnectionKey(sess.serverIP, seg.dstIP,
                                        sess.serverPort, seg.dstPort)
         IN  insertIfAbsent(insertIfAbsent(table, serverKey, sess.sessionId_),
                            reverse(serverKey), sess.sessionId_)
    ELSE table

Returned(pkts) ==
    /\ results' = pkts
    /\ emitted' = emitted \o pkts

\* the history variable `trace` after one more segment
Recorded(seg) == IF trace.on THEN [trace EXCEPT !.log = Append(@, seg)] ELSE trace

Called(seg) ==
    /\ ~crashed
    /\ budget > 0
    /\ budget' = budget - 1
    /\ lastSeg' = seg
    /\ trace' = Recorded(seg)
    /\ UNCHANGED << threadVars, sideVars >>

\* FIN/RST: remove all keys pointing to this session
ProcessFinRst(seg) ==
    /\ Called(seg)
    /\ isFinRst(seg)
    /\ sessions_' = eraseSession(sessions_, findSession(sessions_, seg))
    /\ heap' = liveObjects(sessions_', heap)
    /\ Returned(<< >>)
    /\ UNCHANGED << nextSessionId_, crashed, streamVars, reasmVars >>

\* a SYN whose Session takes the counter's value without moving the counter
ProcessSynSameId(seg) ==
    /\ Called(seg)
    /\ ~isFinRst(seg)
    /\ seg.syn /\ ~seg.ack
    /\ LET old == findSession(sessions_, seg)
           table == IF old # NoSession THEN eraseSession(sessions_, old) ELSE sessions_
           session == initClientSeq(
                          [NewSession(nextSessionId_) EXCEPT !.clientPort = seg.srcPort],
                          SeqAdd(seg.seq, 1))
       IN  /\ sessions_' = assign(table, fwdKeyOf(seg), nextSessionId_)
           /\ heap' = liveObjects(sessions_', (nextSessionId_ :> session) @@ heap)
    /\ nextSessionId_' = nextSessionId_
    /\ Returned(<< >>)
    /\ UNCHANGED << crashed, streamVars, reasmVars >>

\* SYN (client -> server): always create a fresh session
ProcessSyn(seg) ==
    /\ Called(seg)
    /\ ~isFinRst(seg)
    /\ seg.syn /\ ~seg.ack
    /\ LET old == findSession(sessions_, seg)
           table == IF old # NoSession THEN eraseSession(sessions_, old) ELSE sessions_
           session == initClientSeq(
                          [NewSession(nextSessionId_) EXCEPT !.clientPort = seg.srcPort],
                          SeqAdd(seg.seq, 1))
       IN  /\ sessions_' = assign(table, fwdKeyOf(seg), nextSessionId_)
           /\ heap' = liveObjects(sessions_', (nextSessionId_ :> session) @@ heap)
    /\ nextSessionId_' = nextSessionId_ + 1
    /\ Returned(<< >>)
    /\ UNCHANGED << crashed, streamVars, reasmVars >>

\* SYN-ACK (server -> client)
ProcessSynAck(seg) ==
    /\ Called(seg)
    /\ ~isFinRst(seg)
    /\ seg.syn /\ seg.ack
    /\ LET id == findSession(sessions_, seg)
       IN  heap' = IF id # NoSession
                   THEN [heap EXCEPT ![id] = initServerSeq(@, SeqAdd(seg.seq, 1))]
                   ELSE heap
    /\ Returned(<< >>)
    /\ UNCHANGED << sessions_, nextSessionId_, crashed, streamVars, reasmVars >>

\* empty segments and segments of terminated sessions are skipped
ProcessSkip(seg) ==
    /\ Called(seg)
    /\ ~isFinRst(seg)
    /\ ~seg.syn
    /\ \/ Len(seg.payload) <= 0
       \/ /\ findSession(sessions_, seg) # NoSession
          /\ heap[findSession(sessions_, seg)].terminated_
    /\ Returned(<< >>)
    /\ UNCHANGED << sessions_, heap, nextSessionId_, crashed, streamVars, reasmVars >>

isData(seg) ==
    /\ ~isFinRst(seg)
    /\ ~seg.syn
    /\ Len(seg.payload) > 0
    /\ findSession(sessions_, seg) # NoSession => ~heap[findSession(sessions_, seg)].terminated_

\* the session that handles a data segment, and the table that holds it
routed(seg) ==
    LET old == findSession(sessions_, seg)
    IN  IF old # NoSession
        THEN [session |-> heap[old], table |-> sessions_, created |-> FALSE]
        ELSE [session |-> NewSession(nextSessionId_),
              table |-> assign(sessions_, fwdKeyOf(seg), nextSessionId_),
              created |-> TRUE]

\* the session's outcome is stored and returned
Processed(seg, rt, pr) ==
    /\ sessions_' = registerKeys(rt.table, pr.session, seg)
    /\ heap' = (pr.session.sessionId_ :> pr.session) @@ heap
    /\ nextSessionId_' = IF rt.created THEN nextSessionId_ + 1 ELSE nextSessionId_
    /\ Returned(pr.results)
    /\ crashed' \in (IF pr.ub THEN {FALSE, TRUE} ELSE {FALSE})

Routed(seg, rt) == Processed(seg, rt, processSegment(rt.session, seg))

\* route the segment to its session
ProcessData(seg) ==
    /\ Called(seg)
    /\ isData(seg)
    /\ Routed(seg, routed(seg))
    /\ UNCHANGED << streamVars, reasmVars >>

-----------------------------------------------------------------------------
(* Environment: the traffic the analyzer observes                          *)

\* what the sending peer does to a frame: the inverse of tryRead
encrypt(s, plain) ==
    IF s.useNewDataShift_
    THEN [i \in 1..Len(plain) |-> U8(plain[i] + s.aes.iv[1])]
    ELSE transformAES(s.aes, plain)

encodeFrame(s, plain) ==
    LET b0 == Xor8(s.aes.version % 256, s.aes.iv[3])
        b1 == Xor8((s.aes.version \div 256) % 256, s.aes.iv[4])
    IN  << b0, b1, Xor8(Len(plain) % 256, b0), Xor8(Len(plain) \div 256, b1) >>
            \o encrypt(s, plain)

RECURSIVE encodeFrames(_, _)
encodeFrames(s, plains) ==
    IF Len(plains) = 0 THEN << >>
    ELSE encodeFrame(s, plains[1])
             \o encodeFrames([s EXCEPT !.aes.iv = shiftIV(@)], Tail(plains))

\* the blob of an opcode-encryption packet: the inverse of DesDecrypt
DesEncrypt(text) == [i \in 1..Len(text) |-> Xor8(text[i], desKey[((i - 1) % 24) + 1])]

\* a standard-form handshake (size > 0x10)
HandshakeStd(version, patch, localIV, remoteIV, locale) ==
    << 13 + Len(patch), 0, version % 256, version \div 256, Len(patch), 0 >>
        \o patch \o localIV \o remoteIV \o << locale >>

\* an old/short-form handshake, 18 bytes
HandshakeShort(version, patchVal, localIV, remoteIV, locale) ==
    << 16, 0, version % 256, version \div 256, 0, 0, patchVal % 256, patchVal \div 256 >>
        \o localIV \o remoteIV \o << locale, 0 >>

\* plaintext of a frame: opcode (little-endian) and body
Plain(opcode, body) == << opcode % 256, opcode \div 256 >> \o body

\* the token list "5|9" padded with NUL to one 8-byte block
TokenText == << 53, 124, 57, 0, 0, 0, 0, 0 >>

\* the remap table TokenText stands for
TokenMap == (5 :> 204) @@ (9 :> 205)

OpcodeEncPlain == Plain(70, << 8, 0, 0, 0 >> \o DesEncrypt(TokenText))

\* frames the server sends after the handshake, and frames the client sends
InPlains == << OpcodeEncPlain, Plain(17, << 161 >>), Plain(18, << 162 >>) >>

OutPlains == << Plain(5, << 177 >>), Plain(9, << 178 >>), Plain(32, << 179 >>) >>

\* a connection: the endpoints, the initial sequence numbers and the handshake
Endpoint == [serverIP |-> 10, serverPort |-> 8484, clientIP |-> 20,
             serverISN |-> << 65535, 65500 >>, clientISN |-> << 0, 999 >>,
             build |-> 263, localIV |-> << 70, 114, 238, 77 >>,
             remoteIV |-> << 92, 182, 125, 163 >>]

\* locale 6 with an all-digit patch string: inbound uses the data shift
HandshakeBytes ==
    HandshakeStd(Endpoint.build, << 49, 50, 51, 52 >>, Endpoint.localIV,
                 Endpoint.remoteIV, 6)

InStream0 == MapleStream(FALSE, Endpoint.build, 6, Endpoint.remoteIV, TRUE)

OutStream0 == MapleStream(TRUE, Endpoint.build, 6, Endpoint.localIV, TRUE)

ServerStream == HandshakeBytes \o encodeFrames(InStream0, InPlains)

ClientStream == encodeFrames(OutStream0, OutPlains)

Flags(syn, ack, fin, rst) == [syn |-> syn, ack |-> ack, fin |-> fin, rst |-> rst]

TcpSegment(srcIP, dstIP, srcPort, dstPort, seq, flags, payload) ==
    [srcIP |-> srcIP, dstIP |-> dstIP, srcPort |-> srcPort, dstPort |-> dstPort,
     payload |-> payload, seq |-> seq,
     syn |-> flags.syn, ack |-> flags.ack, fin |-> flags.fin, rst |-> flags.rst]

FromServer(port, seq, flags, payload) ==
    TcpSegment(Endpoint.serverIP, Endpoint.clientIP, Endpoint.serverPort, port,
               seq, flags, payload)

FromClient(port, seq, flags, payload) ==
    TcpSegment(Endpoint.clientIP, Endpoint.serverIP, port, Endpoint.serverPort,
               seq, flags, payload)

DataFlags == Flags(FALSE, TRUE, FALSE, FALSE)

\* bytes [from, to) of the server stream, at their sequence number
ServerData(port, from, to) ==
    FromServer(port, SeqAdd(Endpoint.serverISN, 1 + from), DataFlags,
               SubSeq(ServerStream, from + 1, to))

ClientData(port, from, to) ==
    FromClient(port, SeqAdd(Endpoint.clientISN, 1 + from), DataFlags,
               SubSeq(ClientStream, from + 1, to))

Syn(port) == FromClient(port, Endpoint.clientISN, Flags(TRUE, FALSE, FALSE, FALSE), << >>)

SynAck(port) == FromServer(port, Endpoint.serverISN, Flags(TRUE, TRUE, FALSE, FALSE), << >>)

Fin(port) ==
    FromClient(port, SeqAdd(Endpoint.clientISN, 1), Flags(FALSE, TRUE, TRUE, FALSE), << >>)

Rst(port) ==
    FromServer(port, SeqAdd(Endpoint.serverISN, 1), Flags(FALSE, FALSE, FALSE, TRUE), << >>)

NoSeg == TcpSegment(0, 0, 0, 0, << 0, 0 >>, Flags(FALSE, FALSE, FALSE, FALSE), << >>)

HsLen == Len(HandshakeBytes)

-----------------------------------------------------------------------------
(* Spec: the session table under two connections to the same server        *)

MaxCalls == 5

PortA == [port |-> 5000]

PortB == [port |-> 5001]

Menu ==
    { Syn(PortA.port), SynAck(PortA.port), Fin(PortA.port), Rst(PortA.port),
      ServerData(PortA.port, 0, HsLen), ClientData(PortA.port, 0, 7),
      ServerData(PortB.port, 0, HsLen), ClientData(PortB.port, 0, 7) }

NoTrace == [on |-> FALSE, log |-> << >>]

NewTrace == [on |-> TRUE, log |-> << >>]

InitStream ==
    /\ stream = NoStream
    /\ input = << >>

InitReasm ==
    /\ reasm = NewReasm
    /\ drained = << >>

InitOther ==
    /\ crashed = FALSE
    /\ InitStream
    /\ InitReasm
    /\ trace = NoTrace

NumThreads == 2

Threads == 1..NumThreads

Unlocked == 0

\* a thread outside the packet callback
IdleThread ==
    [pc |-> "idle", seg |-> NoSeg, session |-> NoSession, results |-> << >>]

InitThreads ==
    /\ threads = [t \in Threads |-> IdleThread]
    /\ mutex_ = Unlocked

\* App's store as startCapture leaves it, before the capture it starts can
\* call addPackets: no packet, no session, both counters 0
NewApp == [packets_ |-> << >>, sessions_ |-> << >>, nextPacketSeq_ |-> 0,
           baseSeq_ |-> 0]

\* no getPackets call was made: `serial` counts the calls, `since` is the
\* argument of the last one and `items` the array it returned
NoReply == [serial |-> 0, since |-> 0, items |-> << >>]

InitIdle ==
    /\ aesLoop = NoLoop
    /\ arrived = {}
    /\ reply = NoReply

InitSide ==
    /\ InitIdle
    /\ app = NewApp

\* Protocol after construction, before its first call
InitSessions ==
    /\ sessions_ = [k \in {} |-> 0]
    /\ heap = [k \in {} |-> 0]
    /\ nextSessionId_ = 1
    /\ results = << >>
    /\ lastSeg = NoSeg

InitTable ==
    /\ InitThreads
    /\ InitSide
    /\ InitSessions
    /\ emitted = << >>

Init ==
    /\ InitTable
    /\ InitOther
    /\ budget = MaxCalls

Next ==
    \E seg \in Menu :
        \/ ProcessFinRst(seg)
        \/ ProcessSyn(seg)
        \/ ProcessSynAck(seg)
        \/ ProcessSkip(seg)
        \/ ProcessData(seg)

Spec == Init /\ [][Next]_vars

-----------------------------------------------------------------------------
(* Claims about the session table                                          *)

Range(f) == { f[k] : k \in DOMAIN f }

IsHandshakeOf(pkt, id) == pkt.isHandshake /\ pkt.sessionId = id

HandshakeSeen(id) == \E i \in 1..Len(emitted) : IsHandshakeOf(emitted[i], id)

\* C9: when a segment with FIN or RST resolves to a Session, after the call
\* no key of the table maps to that Session, nothing is emitted for the
\* segment, and the keys and the state of every other Session are unchanged.
C9_FinRstRemovesSession ==
    [][ LET seg == lastSeg'
            id == findSession(sessions_, seg)
        IN  (budget' # budget /\ (seg.fin \/ seg.rst) /\ id # NoSession) =>
                /\ id \notin Range(sessions_')
                /\ results' = << >>
                /\ emitted' = emitted
                /\ DOMAIN sessions_' \subseteq DOMAIN sessions_
                /\ \A k \in DOMAIN sessions_ :
                       sessions_[k] # id =>
                           k \in DOMAIN sessions_' /\ sessions_'[k] = sessions_[k]
                /\ \A o \in (DOMAIN heap) \ {id} :
                       o \in DOMAIN heap' /\ heap'[o] = heap[o]
      ]_vars

\* two sessions completed their handshake (each is registered under two keys),
\* and the third call was a FIN that removed the first of them
C9_Witness ==
    /\ budget = MaxCalls - 3
    /\ lastSeg.fin
    /\ HandshakeSeen(1) /\ HandshakeSeen(2)
    /\ Range(sessions_) = {2}
    /\ Cardinality(DOMAIN sessions_) = 2

\* C10: a SYN without ACK on a 4-tuple that resolves to a Session removes
\* every entry of the old Session and installs a fresh Nascent Session with a
\* new id, client_port = src_port and client next_seq = seq + 1, found by the
\* 4-tuple and by its reverse; a removed Session never comes back; and a
\* Session leaves the table only by FIN, RST or such a SYN.
C10_SynSupersedes ==
    [][ LET seg == lastSeg'
            old == findSession(sessions_, seg)
            new == nextSessionId_
            rev == [seg EXCEPT !.srcIP = seg.dstIP, !.dstIP = seg.srcIP,
                               !.srcPort = seg.dstPort, !.dstPort = seg.srcPort]
        IN  budget' # budget =>
              /\ (seg.syn /\ ~seg.ack /\ ~isFinRst(seg) /\ old # NoSession) =>
                    /\ old \notin Range(sessions_')
                    /\ new \notin DOMAIN heap /\ new # old
                    /\ \A i \in DOMAIN heap : i < new
                    /\ findSession(sessions_', seg) = new
                    /\ findSession(sessions_', rev) = new
                    /\ heap'[new].sessionId_ = new
                    /\ ~heap'[new].initialized_
                    /\ heap'[new].inboundStream_ = NoStream
                    /\ heap'[new].outboundStream_ = NoStream
                    /\ heap'[new].pendingInbound_ = << >>
                    /\ heap'[new].pendingOutbound_ = << >>
                    /\ heap'[new].serverReasm_ = NewReasm
                    /\ heap'[new].clientPort = seg.srcPort
                    /\ heap'[new].clientReasm_.nextSeq = SeqAdd(seg.seq, 1)
                    /\ heap'[new].clientReasm_.initialized
                    /\ DOMAIN heap'[new].clientReasm_.staged = {}
              /\ \A id \in 1..(nextSessionId_ - 1) :
                    id \notin Range(sessions_) => id \notin Range(sessions_')
              /\ \A id \in Range(sessions_) \ Range(sessions_') :
                    /\ findSession(sessions_, seg) = id
                    /\ (seg.fin \/ seg.rst) \/ (seg.syn /\ ~seg.ack)
      ]_vars

\* the first call initialized session 1, the second was a SYN on its 4-tuple
C10_Witness ==
    /\ budget = MaxCalls - 2
    /\ lastSeg.syn /\ ~lastSeg.ack
    /\ HandshakeSeen(1)
    /\ Range(sessions_) = {2}
    /\ ~heap[2].initialized_

-----------------------------------------------------------------------------
(* SpecReasm: one TcpReasm under addSegment and drain                      *)

MaxReasmOps == 4

\* sequence number of the first byte of the logical stream (4 below the wrap)
ReasmBase == << 65535, 65532 >>

ReasmOffsets == {0, 2}

MaxSegLen == 2

\* byte i of the logical stream
StreamByte(i) == 16 + i

\* the stream's bytes [off, off + len), or a probe of len zero bytes
ReasmPayload(off, len, probe) ==
    [i \in 1..len |-> IF probe THEN 0 ELSE StreamByte(off + i - 1)]

ReasmSegment(off, len, probe) ==
    FromClient(PortA.port, SeqAdd(ReasmBase, off), DataFlags,
               ReasmPayload(off, len, probe))

ReasmMenu ==
    { ReasmSegment(off, len, probe) :
          off \in ReasmOffsets, len \in 0..MaxSegLen, probe \in BOOLEAN }

ReasmStep ==
    /\ budget > 0
    /\ budget' = budget - 1
    /\ UNCHANGED << sessions_, heap, nextSessionId_, results, emitted, crashed,
                    streamVars, threadVars, sideVars >>

AddSegment(seg) ==
    /\ ReasmStep
    /\ reasm' = addSegment(reasm, seg.seq, seg.payload)
    /\ lastSeg' = seg
    /\ trace' = Recorded(seg)
    /\ UNCHANGED drained

Drain(holdLast) ==
    /\ ReasmStep
    /\ LET d == drain(reasm, holdLast)
       IN  /\ reasm' = d.reasm
           /\ drained' = drained \o d.result
    /\ lastSeg' = NoSeg
    /\ UNCHANGED trace

InitSpecReasm ==
    /\ InitTable
    /\ crashed = FALSE
    /\ InitStream
    /\ reasm \in {NewReasm, init(NewReasm, ReasmBase)}
    /\ drained = << >>
    /\ trace = NewTrace
    /\ budget = MaxReasmOps

NextReasm ==
    \/ \E seg \in ReasmMenu : AddSegment(seg)
    \/ \E holdLast \in BOOLEAN : Drain(holdLast)

SpecReasm == InitSpecReasm /\ [][NextReasm]_vars

\* C3: adding a segment at an already staged seq with equal or shorter length
\* changes nothing in the reassembler; adding a strictly longer one replaces
\* the staged bytes at that seq by the new bytes and changes nothing else.
C3_LongerSegmentWins ==
    [][ LET seg == lastSeg'
            len == Len(seg.payload)
        IN  (budget' # budget /\ seg # NoSeg /\ seg.seq \in DOMAIN reasm.staged) =>
                IF len <= Len(reasm.staged[seg.seq])
                THEN reasm' = reasm
                ELSE /\ reasm'.staged = [reasm.staged EXCEPT ![seg.seq] = seg.payload]
                     /\ reasm'.nextSeq = reasm.nextSeq
                     /\ reasm'.initialized = reasm.initialized
      ]_vars

\* a probe, its longer replacement and a repeat of the probe were added at
\* the same seq: the replacement is what stays staged
C3_Witness ==
    /\ Len(trace.log) = 3
    /\ trace.log[1] = ReasmSegment(2, 1, TRUE)
    /\ trace.log[2] = ReasmSegment(2, 2, FALSE)
    /\ trace.log[3] = ReasmSegment(2, 1, TRUE)
    /\ reasm.staged = (SeqAdd(ReasmBase, 2) :> ReasmPayload(2, 2, FALSE))

-----------------------------------------------------------------------------
(* SpecHs: one connection that has not completed its handshake             *)

MaxHsCalls == 3

\* patch strings "1234", "1:23" and "1"
PatchDigits == << 49, 50, 51, 52 >>

PatchColon == << 49, 58, 50, 51 >>

PatchOne == << 49 >>

\* the frame that follows the handshake in the same stream
HsFrame(locale, extraCipher) ==
    encodeFrame(MapleStream(FALSE, Endpoint.build, locale, Endpoint.remoteIV,
                            extraCipher), Plain(17, << 161 >>))

\* server streams that start with a handshake: standard form with the data
\* shift, standard form with AES, short form, a standard form whose size is
\* below 0x11 (read as the short form), and a standard form with locale 0
HsStreams ==
    << HandshakeBytes \o HsFrame(6, TRUE),
       HandshakeStd(Endpoint.build, PatchColon, Endpoint.localIV,
                    Endpoint.remoteIV, 6) \o HsFrame(6, FALSE),
       HandshakeShort(Endpoint.build, 4, Endpoint.localIV, Endpoint.remoteIV, 8)
           \o HsFrame(8, FALSE),
       HandshakeStd(Endpoint.build, PatchOne, Endpoint.localIV,
                    Endpoint.remoteIV, 8) \o << 8, 1, 2 >>,
       HandshakeStd(Endpoint.build, PatchDigits, Endpoint.localIV,
                    Endpoint.remoteIV, 0) \o HsFrame(6, TRUE) >>

\* where the streams are cut into segments
HsCut == 10

HsTail == 3

HsData(bytes, from, to) ==
    FromServer(PortA.port, SeqAdd(Endpoint.serverISN, 1 + from), DataFlags,
               SubSeq(bytes, from + 1, to))

\* each stream whole, its first HsCut bytes, and the bytes from HsCut up to
\* HsTail bytes before its end
HsMenu ==
    UNION { { HsData(HsStreams[i], 0, Len(HsStreams[i])),
              HsData(HsStreams[i], 0, HsCut),
              HsData(HsStreams[i], HsCut, Len(HsStreams[i]) - HsTail) }
            : i \in 1..Len(HsStreams) }
        \cup { Syn(PortA.port), ClientData(PortA.port, 0, 7) }

InitHs ==
    /\ InitTable
    /\ InitOther
    /\ budget = MaxHsCalls

NextHs ==
    \E seg \in HsMenu :
        \/ ProcessSyn(seg)
        \/ ProcessData(seg)

SpecHs == InitHs /\ [][NextHs]_vars

RECURSIVE FrameBytes(_)
\* the stream bytes taken by the decoded packets of a list: a 4-byte header,
\* the opcode and the payload each
FrameBytes(pkts) ==
    IF Len(pkts) = 0 THEN 0
    ELSE (IF pkts[1].isHandshake \/ pkts[1].isDeadNotification \/ pkts[1].outbound
          THEN 0 ELSE 4 + 2 + Len(pkts[1].payload))
         + FrameBytes(Tail(pkts))

\* the fields of a handshake as the wire format lays them out
WireVersion(p) == U16LE(p, 2)

WireSubVersion(p) ==
    IF U16LE(p, 0) > 16 THEN SubSeq(p, 7, 6 + U16LE(p, 4))
    ELSE to_string(U16LE(p, 6) + 1)

WireLocale(p) ==
    IF U16LE(p, 0) > 16 THEN p[6 + U16LE(p, 4) + 9] ELSE p[17]

\* C4: on the call in which the handshake detector succeeds, the session
\* becomes Initialized with both cipher streams, the call emits exactly one
\* handshake packet (opcode 0xFFFF, with the version, sub-version string and
\* locale of the handshake), and exactly 2 + size bytes leave the front of
\* pending_inbound: the bytes behind them reach the inbound stream in order.
C4_HandshakeDetected ==
    [][ LET seg == lastSeg'
            id == findSession(sessions_, seg)
            nid == IF id # NoSession THEN id ELSE nextSessionId_
            pre == IF id # NoSession THEN heap[id] ELSE NewSession(nid)
            p == pre.pendingInbound_ \o seg.payload
            size == U16LE(p, 0)
            hs == { i \in 1..Len(results') : results'[i].isHandshake }
        IN  (budget' # budget /\ nid \in DOMAIN heap' /\ ~pre.initialized_
                /\ heap'[nid].initialized_) =>
                /\ heap'[nid].inboundStream_ # NoStream
                /\ heap'[nid].outboundStream_ # NoStream
                /\ hs = {1}
                /\ results'[1].opcode = 65535
                /\ results'[1].version = WireVersion(p)
                /\ results'[1].subVersionStr = WireSubVersion(p)
                /\ results'[1].locale = WireLocale(p)
                /\ results'[1].sessionId = nid
                /\ heap'[nid].inboundStream_.buffer_
                       = Drop(p, 2 + size + FrameBytes(results'))
      ]_vars

\* the handshake arrived in two segments and was detected on the second,
\* which also carried the first bytes of the next frame
C4_Witness ==
    /\ lastSeg = HsData(HsStreams[1], HsCut, Len(HsStreams[1]) - HsTail)
    /\ Len(results) = 1 /\ results[1].isHandshake
    /\ heap[1].initialized_
    /\ Len(heap[1].inboundStream_.buffer_) = 7 - HsTail

-----------------------------------------------------------------------------
(* SpecStream: one MapleStream under append and tryRead                    *)

MaxChunk == 8

RECURSIVE Shifted(_, _)
\* the stream after n packets: its IV morphed n times
Shifted(s, n) == IF n = 0 THEN s ELSE Shifted([s EXCEPT !.aes.iv = shiftIV(@)], n - 1)

\* an 8-byte header (the form for length 0xFF00) that declares `declared`
\* payload bytes
bigHeader(s, declared) ==
    LET b0 == Xor8(s.aes.version % 256, s.aes.iv[3])
        b1 == Xor8((s.aes.version \div 256) % 256, s.aes.iv[4])
        lo == Xor16(declared % 65536, b0 + 256 * b1)
    IN  << b0, b1, b0, Xor8(255, b1), lo % 256, lo \div 256,
           (declared \div 65536) % 256, declared \div 16777216 >>

\* the largest payload length whose sum with the 8-byte header fits an int
MaxFramed == Int32Max - 8

\* what the client sends: three frames, a frame of 3 bytes under an 8-byte
\* header, and a header that declares MaxFramed + 1 bytes
OutWire ==
    ClientStream
        \o bigHeader(Shifted(OutStream0, 3), 3)
        \o encrypt(Shifted(OutStream0, 3), Plain(33, << 180 >>))
        \o bigHeader(Shifted(OutStream0, 4), MaxFramed + 1)

\* what the server sends after the handshake: three frames, then bytes that
\* fail the header check
InWire == Drop(ServerStream, HsLen) \o << 1, 2, 3, 4 >>

WireOf(s) == IF s.outbound THEN OutWire ELSE InWire

Stream0(s) == IF s.outbound THEN OutStream0 ELSE InStream0

StreamStep ==
    /\ ~crashed
    /\ UNCHANGED << sessions_, heap, nextSessionId_, lastSeg, budget, reasmVars,
                    trace, threadVars, sideVars >>

\* stream.append(data, len) with the next n bytes of the wire
AppendChunk(n) ==
    /\ StreamStep
    /\ Len(input) < Len(WireOf(stream))
    /\ LET chunk == SubSeq(WireOf(stream), Len(input) + 1,
                           Min(Len(input) + n, Len(WireOf(stream))))
       IN  /\ stream' = append(stream, chunk)
           /\ input' = input \o chunk
    /\ UNCHANGED << results, emitted, crashed >>

\* stream.tryRead(timestamp); the overflowing addition either leaves the
\* stream waiting or aborts the process
TryRead ==
    /\ StreamStep
    /\ LET r == tryRead(stream)
       IN  /\ stream' = r.stream
           /\ Returned(r.pkt)
           /\ crashed' \in (IF r.ub THEN {FALSE, TRUE} ELSE {FALSE})
    /\ UNCHANGED input

InitSpecStream ==
    /\ InitTable
    /\ InitReasm
    /\ crashed = FALSE
    /\ trace = NoTrace
    /\ budget = 0
    /\ stream \in {InStream0, OutStream0}
    /\ input = << >>

NextStream ==
    \/ \E n \in 1..MaxChunk : AppendChunk(n)
    \/ TryRead

SpecStream == InitSpecStream /\ [][NextStream]_vars

RECURSIVE readAll(_, _)
\* append once, then tryRead until it returns nothing
readAll(s, acc) ==
    LET r == tryRead(s)
    IN  IF Len(r.pkt) = 0 THEN [stream |-> r.stream, pkts |-> acc]
        ELSE readAll(r.stream, Append(acc, r.pkt[1]))

OneShot(s, bytes) == readAll(append(Stream0(s), bytes), << >>)

IsPrefix(a, b) == Len(a) <= Len(b) /\ a = SubSeq(b, 1, Len(a))

\* the packets and the IV do not depend on how the bytes were cut
CutIndependent(s, bytes, pkts) ==
    /\ IsPrefix(pkts, OneShot(s, bytes).pkts)
    /\ Len(tryRead(s).pkt) = 0 =>
           /\ pkts = OneShot(s, bytes).pkts
           /\ s.aes.iv = OneShot(s, bytes).stream.aes.iv
           /\ s.buffer_ = OneShot(s, bytes).stream.buffer_

\* fewer bytes are buffered than the header and the payload it declares
ShortOf(s) ==
    \/ cursor_(s) < 4
    \/ /\ confirmHeader(s.aes, s.buffer_)
       /\ \/ cursor_(s) < getHeaderLength(s.buffer_)
          \/ cursor_(s) - getHeaderLength(s.buffer_)
                 < getPacketLength(s.buffer_, cursor_(s))

\* a tryRead on a short buffer emits nothing and keeps bytes, cursor and IV
ShortReadWaits ==
    (input' = input /\ ShortOf(stream)) =>
        /\ ~crashed'
        /\ results' = << >>
        /\ stream'.buffer_ = stream.buffer_
        /\ stream'.aes.iv = stream.aes.iv

\* C7: the framer's packets and final IV are independent of how the input is
\* cut into append calls, and a tryRead that finds fewer than header_len +
\* payload_len buffered bytes emits nothing and leaves bytes, cursor and IV
\* unchanged.
C7_ChunkIndependent ==
    [][ShortReadWaits /\ CutIndependent(stream', input', emitted')]_vars

-----------------------------------------------------------------------------
(* SpecConn: one connection, with bytes that fail the header check         *)

MaxConnCalls == 4

\* the offsets of the frames in the server stream and in the client stream
InFrame2 == HsLen + Len(encodeFrame(InStream0, InPlains[1]))

InFrame3 == InFrame2 + Len(encodeFrame(InStream0, InPlains[2]))

InEnd == Len(ServerStream)

OutFrame2 == Len(encodeFrame(OutStream0, OutPlains[1]))

OutEnd == Len(ClientStream)

\* seven bytes that are no frame header under any IV of the scenario
Garbage == << 1, 2, 3, 4, 5, 6, 7 >>

ServerBytes(from, bytes) ==
    FromServer(PortA.port, SeqAdd(Endpoint.serverISN, 1 + from), DataFlags, bytes)

ClientBytes(from, bytes) ==
    FromClient(PortA.port, SeqAdd(Endpoint.clientISN, 1 + from), DataFlags, bytes)

\* the handshake followed by garbage in one segment
HsGarbage == ServerBytes(0, HandshakeBytes \o Garbage)

\* garbage in the place of the second server frame, and the bytes of the
\* second server frame sent again behind the third
InGarbage == ServerBytes(InFrame2, Garbage)

InReplay == ServerBytes(InEnd, SubSeq(ServerStream, InFrame2 + 1, InFrame3))

\* garbage in the place of the first client frame, and the bytes of the
\* first client frame sent behind it
OutGarbage == ClientBytes(0, Garbage)

OutReplay == ClientBytes(Len(Garbage), SubSeq(ClientStream, 1, OutFrame2))

ConnMenu ==
    { Syn(PortA.port), Fin(PortA.port),
      ServerData(PortA.port, 0, HsLen), ServerData(PortA.port, 0, InFrame2),
      HsGarbage,
      ServerData(PortA.port, InFrame2, InFrame3),
      ServerData(PortA.port, InFrame3, InEnd),
      InGarbage, InReplay,
      ClientData(PortA.port, 0, OutFrame2),
      ClientData(PortA.port, OutFrame2, OutEnd),
      OutGarbage, OutReplay }

InitConn ==
    /\ InitTable
    /\ InitOther
    /\ budget = MaxConnCalls

NextConn ==
    \E seg \in ConnMenu :
        \/ ProcessFinRst(seg)
        \/ ProcessSyn(seg)
        \/ ProcessSkip(seg)
        \/ ProcessData(seg)

SpecConn == InitConn /\ [][NextConn]_vars


\* a packet decoded from a frame (neither the handshake nor a dead notice)
IsDecoded(pkt) == ~pkt.isHandshake /\ ~pkt.isDeadNotification

\* the decoded packets of one session and direction, in emission order
DecodedOf(pkts, id, outbound) ==
    SelectSeq(pkts, LAMBDA pkt : IsDecoded(pkt) /\ pkt.sessionId = id
                                    /\ pkt.outbound = outbound)

\* the frames of a direction's byte stream, in stream order
PlainsOf(outbound) == IF outbound THEN OutPlains ELSE InPlains

\* the positions in the stream of the frames that carry this payload
FramesOf(pkt) ==
    { i \in 1..Len(PlainsOf(pkt.outbound)) :
          Drop(PlainsOf(pkt.outbound)[i], 2) = pkt.payload }

\* the one frame of the stream a packet was decoded from (0 if there is none
\* or more than one)
FrameOf(pkt) ==
    IF Cardinality(FramesOf(pkt)) = 1 THEN CHOOSE i \in FramesOf(pkt) : TRUE ELSE 0

SessionIds == 1..(nextSessionId_ - 1)

\* C1: for every session and direction, the decoded packets are emitted in
\* the order of their frames in the direction's byte stream, and no frame is
\* emitted twice: the frame positions of the emitted packets increase strictly.
C1_StreamOrder ==
    \A id \in SessionIds : \A outbound \in BOOLEAN :
        LET d == DecodedOf(emitted, id, outbound)
        IN  \A j \in 1..Len(d) :
                /\ FrameOf(d[j]) # 0
                /\ j > 1 => FrameOf(d[j - 1]) < FrameOf(d[j])

\* the client's second and third frame arrived before its first: the call
\* that brought the first emitted all three
C1_Witness ==
    /\ Len(DecodedOf(emitted, 1, TRUE)) = 3
    /\ Len(DecodedOf(emitted, 1, FALSE)) = 1
    /\ Len(results) = 3
    /\ lastSeg = ClientData(PortA.port, 0, OutFrame2)

\* the stream stands at a header that fails the header check
Desynced(s) ==
    /\ s # NoStream
    /\ cursor_(s) >= s.expectedDataSize_
    /\ ~confirmHeader(s.aes, s.buffer_)

\* C5: once the header check of a direction has failed, the stream stays at
\* the failing header and no packet is decoded for that direction of the
\* session by any later call, as long as the session exists.
C5_DeadIsAbsorbing ==
    [][ \A id \in DOMAIN heap : \A outbound \in BOOLEAN :
            (heap[id].initialized_ /\ isDead(streamOf(heap[id], outbound))
                 /\ id \in DOMAIN heap') =>
                /\ Desynced(streamOf(heap[id], outbound))
                /\ isDead(streamOf(heap'[id], outbound))
                /\ Len(DecodedOf(results', id, outbound)) = 0
      ]_vars

\* after the client's stream desynchronized, the bytes of a valid frame
\* arrived behind the garbage and were drained into the dead stream
C5_Witness ==
    /\ lastSeg = OutReplay
    /\ 1 \in DOMAIN heap
    /\ heap[1].initialized_
    /\ isDead(heap[1].outboundStream_)
    /\ heap[1].outboundStream_.buffer_ = Garbage \o OutReplay.payload
    /\ results = << >>

\* the dead notices emitted for one session and direction
NoticesOf(pkts, id, outbound) ==
    SelectSeq(pkts, LAMBDA pkt : pkt.isDeadNotification /\ pkt.sessionId = id
                                    /\ pkt.outbound = outbound)

\* C6: for each direction of a session whose stream has desynchronized,
\* exactly one dead notice tagged with that direction has been emitted, also
\* when the other direction of the session desynchronized before.
C6_OneNoticePerDirection ==
    \A id \in DOMAIN heap : \A outbound \in BOOLEAN :
        (heap[id].initialized_ /\ isDead(streamOf(heap[id], outbound))) =>
            Len(NoticesOf(emitted, id, outbound)) = 1

\* the raw opcode of the frame a packet was decoded from
RawOpcode(pkt) == U16LE(PlainsOf(pkt.outbound)[FrameOf(pkt)], 0)

\* an inbound 0x46 packet of the session was emitted before position j
RemapKnown(pkts, j) ==
    \E i \in 1..(j - 1) : /\ IsDecoded(pkts[i]) /\ ~pkts[i].outbound
                          /\ pkts[i].opcode = 70
                          /\ pkts[i].sessionId = pkts[j].sessionId

\* C8: once the inbound stream has decoded the 0x46 packet with the token
\* list 5|9, the outbound stream's table is {5 -> 0xCC, 9 -> 0xCD}; every
\* outbound packet decoded afterwards is emitted with the table's value for
\* its raw opcode if it is a key, and with its raw opcode otherwise.
C8_OpcodeRemap ==
    /\ \A id \in DOMAIN heap :
           (\E i \in 1..Len(emitted) : /\ emitted[i].sessionId = id
                                       /\ IsDecoded(emitted[i])
                                       /\ ~emitted[i].outbound
                                       /\ emitted[i].opcode = 70) =>
               /\ heap[id].outboundStream_.opcodeEncrypted_
               /\ heap[id].outboundStream_.encryptedOpcodes_ = TokenMap
    /\ \A j \in 1..Len(emitted) :
           (IsDecoded(emitted[j]) /\ emitted[j].outbound /\ FrameOf(emitted[j]) # 0) =>
               emitted[j].opcode =
                   IF RemapKnown(emitted, j) /\ RawOpcode(emitted[j]) \in DOMAIN TokenMap
                   THEN TokenMap[RawOpcode(emitted[j])]
                   ELSE RawOpcode(emitted[j])

\* the client's three frames were decoded after the 0x46 packet: opcodes 5
\* and 9 were replaced, opcode 32 was not
C8_Witness ==
    /\ Len(DecodedOf(emitted, 1, TRUE)) = 3
    /\ DecodedOf(emitted, 1, TRUE)[1].opcode = 204
    /\ DecodedOf(emitted, 1, TRUE)[2].opcode = 205
    /\ DecodedOf(emitted, 1, TRUE)[3].opcode = 32
    /\ RemapKnown(emitted, Len(emitted))

-----------------------------------------------------------------------------
(* SpecOrder: the segments of one direction in every arrival order         *)

MaxOrderCalls == 6

\* where the client stream and the server stream (behind the handshake) are
\* cut into segments
OutCuts == << 0, 5, 12, 16, OutEnd >>

InCuts == << HsLen, 30, InFrame2, InFrame3, InEnd >>

OutPieces == { ClientData(PortA.port, OutCuts[i], OutCuts[i + 1]) : i \in 1..(Len(OutCuts) - 1) }

InPieces == { ServerData(PortA.port, InCuts[i], InCuts[i + 1]) : i \in 1..(Len(InCuts) - 1) }

HsSegment == ServerData(PortA.port, 0, HsLen)

Logged(seg) == \E i \in 1..Len(trace.log) : trace.log[i] = seg

\* the segments fed after the handshake
Pieces == { seg \in OutPieces \cup InPieces : Logged(seg) }

\* the SYN, if the capture has it, then the handshake
OrderSetup(seg) ==
    /\ seg \in {Syn(PortA.port), HsSegment}
    /\ ~Logged(HsSegment)
    /\ ~Logged(seg)
    /\ ProcessSyn(seg) \/ ProcessData(seg)

\* one more segment of the direction, not fed before
OrderFeed(seg) ==
    /\ Logged(HsSegment)
    /\ ~Logged(seg)
    /\ \A other \in Pieces : other.srcIP = seg.srcIP
    /\ ProcessData(seg)

InitOrder ==
    /\ InitTable
    /\ crashed = FALSE
    /\ InitStream
    /\ InitReasm
    /\ trace = NewTrace
    /\ budget = MaxOrderCalls

NextOrder ==
    \/ \E seg \in {Syn(PortA.port), HsSegment} : OrderSetup(seg)
    \/ \E seg \in OutPieces \cup InPieces : OrderFeed(seg)

SpecOrder == InitOrder /\ [][NextOrder]_vars

\* offset of a segment in its direction's stream
OffsetOf(seg) ==
    SeqToInt(SeqSub(seg.seq, IF seg.srcIP = Endpoint.serverIP
                             THEN Endpoint.serverISN ELSE Endpoint.clientISN))

RECURSIVE InSeqOrder(_)
\* the segments of a set in sequence-number order
InSeqOrder(segs) ==
    IF segs = {} THEN << >>
    ELSE LET first == CHOOSE s \in segs : \A t \in segs : OffsetOf(s) <= OffsetOf(t)
         IN  << first >> \o InSeqOrder(segs \ {first})

RECURSIVE runSession(_, _, _)
\* processSegment applied to a list of segments, with the packets it returns
runSession(sess, segs, acc) ==
    IF Len(segs) = 0 THEN acc
    ELSE LET pr == processSegment(sess, segs[1])
         IN  runSession(pr.session, Tail(segs), acc \o pr.results)

\* the session as the SYN (if seen) leaves it
AfterSyn(seen) ==
    IF seen
    THEN initClientSeq([NewSession(1) EXCEPT !.clientPort = PortA.port],
                       SeqAdd(Endpoint.clientISN, 1))
    ELSE NewSession(1)

\* what the session emits when the fed segments arrive in sequence order
InOrderPackets ==
    runSession(AfterSyn(Logged(Syn(PortA.port))),
               << HsSegment >> \o InSeqOrder(Pieces), << >>)

\* C2: for an initialized session and one direction, feeding a set of
\* non-overlapping segments in any arrival order yields the same sequence of
\* decoded packets as feeding them in sequence-number order.
C2_OrderIndependent ==
    Logged(HsSegment) =>
        \A outbound \in BOOLEAN :
            DecodedOf(emitted, 1, outbound) = DecodedOf(InOrderPackets, 1, outbound)

\* the same, for a direction whose reassembler was given its next_seq before
\* the segments arrived (not the first-seen seq of addSegment)
OrderIndependentSeeded ==
    Logged(HsSegment) =>
        \A outbound \in BOOLEAN :
            (outbound => Logged(Syn(PortA.port))) =>
                DecodedOf(emitted, 1, outbound) = DecodedOf(InOrderPackets, 1, outbound)


-----------------------------------------------------------------------------
(* SpecCross: one connection, the frames of both directions interleaved    *)

MaxCrossCalls == 6

OutFrame3 == OutFrame2 + Len(encodeFrame(OutStream0, OutPlains[2]))

\* where the frames of a direction's stream end
FrameEnds(outbound) ==
    IF outbound THEN << OutFrame2, OutFrame3, OutEnd >>
    ELSE << InFrame2, InFrame3, InEnd >>

\* the segments that carry the handshake: alone, or with the first frame
HsSegments == { HsSegment, ServerData(PortA.port, 0, InFrame2) }

\* one segment per frame
InFrames ==
    { ServerData(PortA.port, HsLen, InFrame2),
      ServerData(PortA.port, InFrame2, InFrame3),
      ServerData(PortA.port, InFrame3, InEnd) }

OutFrames ==
    { ClientData(PortA.port, 0, OutFrame2),
      ClientData(PortA.port, OutFrame2, OutFrame3),
      ClientData(PortA.port, OutFrame3, OutEnd) }

\* the connection opens with its SYN
CrossSetup(seg) ==
    /\ trace.log = << >>
    /\ ProcessSyn(seg)

\* one more segment, not fed before; the server's frames follow a handshake
CrossFeed(seg) ==
    /\ trace.log # << >>
    /\ ~Logged(seg)
    /\ seg \in InFrames => \E hs \in HsSegments : Logged(hs)
    /\ ProcessData(seg)

InitCross ==
    /\ InitTable
    /\ crashed = FALSE
    /\ InitStream
    /\ InitReasm
    /\ trace = NewTrace
    /\ budget = MaxCrossCalls

NextCross ==
    \/ \E seg \in {Syn(PortA.port)} : CrossSetup(seg)
    \/ \E seg \in HsSegments \cup InFrames \cup OutFrames : CrossFeed(seg)

SpecCross == InitCross /\ [][NextCross]_vars

\* first and one-past-last stream offset of a data segment
StartOf(seg) == OffsetOf(seg) - 1

EndOf(seg) == StartOf(seg) + Len(seg.payload)

RECURSIVE CoveredTo(_, _, _)
\* how far the segments of a direction cover its stream without a gap,
\* starting at offset e
CoveredTo(segs, fromServer, e) ==
    LET reach == { EndOf(segs[i]) : i \in { k \in 1..Len(segs) :
                       /\ Len(segs[k].payload) > 0
                       /\ (segs[k].srcIP = Endpoint.serverIP) = fromServer
                       /\ StartOf(segs[k]) <= e
                       /\ EndOf(segs[k]) > e } }
    IN  IF reach = {} THEN e
        ELSE CoveredTo(segs, fromServer, CHOOSE m \in reach : \A n \in reach : n <= m)

\* the call whose segment completed the frame of a packet: the first call
\* after which the direction's stream has arrived up to the frame's end
CompletedAt(segs, pkt) ==
    CHOOSE i \in 1..Len(segs) :
        /\ CoveredTo(Take(segs, i), ~pkt.outbound, 0) >= FrameEnds(pkt.outbound)[FrameOf(pkt)]
        /\ \A k \in 1..(i - 1) :
               CoveredTo(Take(segs, k), ~pkt.outbound, 0) < FrameEnds(pkt.outbound)[FrameOf(pkt)]

\* the call whose segment completed the handshake
HandshakeAt(segs) ==
    CHOOSE i \in 1..Len(segs) :
        /\ segs[i].srcIP = Endpoint.serverIP
        /\ \A k \in 1..(i - 1) : segs[k].srcIP # Endpoint.serverIP

\* packets i and j of the history are decoded packets of opposite directions
\* of the session
Opposite(i, j) ==
    /\ IsDecoded(emitted[i]) /\ IsDecoded(emitted[j])
    /\ FrameOf(emitted[i]) # 0 /\ FrameOf(emitted[j]) # 0
    /\ emitted[i].sessionId = emitted[j].sessionId
    /\ emitted[i].outbound # emitted[j].outbound

\* C11: of two decoded packets of a session in opposite directions, the one
\* whose completing segment arrived first is emitted first.
C11_ArrivalOrder ==
    \A i, j \in 1..Len(emitted) :
        (Opposite(i, j) /\ CompletedAt(trace.log, emitted[i])
                              < CompletedAt(trace.log, emitted[j])) => i < j

\* C11, amended: an outbound packet whose completing segment arrived before
\* the segment completing an inbound packet is emitted before it, unless the
\* inbound packet was completed by the segment that completed the handshake
\* (the outbound bytes buffered before the handshake are replayed behind the
\* inbound bytes of that segment).  Nothing is claimed for an inbound packet
\* completed first: its segment is held until the next inbound segment.
C11_OutboundFirst ==
    \A i, j \in 1..Len(emitted) :
        (/\ Opposite(i, j)
         /\ emitted[i].outbound
         /\ CompletedAt(trace.log, emitted[i]) < CompletedAt(trace.log, emitted[j])
         /\ CompletedAt(trace.log, emitted[j]) # HandshakeAt(trace.log)) => i < j

\* the client's first frame arrived after the handshake and before the
\* server's first frame; both packets were emitted
C11_Witness ==
    /\ Len(trace.log) >= 5
    /\ trace.log[2] = HsSegment
    /\ trace.log[3] = ClientData(PortA.port, 0, OutFrame2)
    /\ trace.log[4] = ServerData(PortA.port, HsLen, InFrame2)
    /\ Len(DecodedOf(emitted, 1, TRUE)) >= 1
    /\ Len(DecodedOf(emitted, 1, FALSE)) >= 1


-----------------------------------------------------------------------------
(* Claims about the packets of one MapleStream (SpecStream)                *)

\* C12: the length field of a packet tryRead returns equals the number of
\* decrypted bytes of its frame (the payload length its header declares:
\* the 2 opcode bytes and the payload after the opcode).
C12_LengthIsTotal ==
    [][ (input' = input /\ Len(results') = 1) =>
            results'[1].length = getPacketLength(stream.buffer_, cursor_(stream))
      ]_vars


-----------------------------------------------------------------------------
(* SpecNascent: one connection whose inbound bytes the detector rejects    *)

MaxNascentCalls == 3

\* the 23 bytes 0E 00 55 00 07 00 "1234567" 46 72 EE 4D 5C B6 7D A3 21 06
ScenarioBytes ==
    << 14, 0, 85, 0, 7, 0, 49, 50, 51, 52, 53, 54, 55,
       70, 114, 238, 77, 92, 182, 125, 163, 33, 6 >>

\* a patch string of 101 characters
LongPatch == [i \in 1..101 |-> 49]

\* inbound byte strings: the scenario, standard forms with locale 0, with
\* locale 0x13 and with a string of 101 characters, a short form with locale
\* 0x13, and a well-formed handshake
NascentStreams ==
    << ScenarioBytes,
       HandshakeStd(Endpoint.build, PatchDigits, Endpoint.localIV,
                    Endpoint.remoteIV, 0),
       HandshakeStd(Endpoint.build, PatchDigits, Endpoint.localIV,
                    Endpoint.remoteIV, 19),
       HandshakeStd(Endpoint.build, LongPatch, Endpoint.localIV,
                    Endpoint.remoteIV, 6),
       HandshakeShort(Endpoint.build, 4, Endpoint.localIV, Endpoint.remoteIV, 19),
       HandshakeBytes >>

\* where the strings are cut into segments
NascentCut == 3

\* each string whole, its first NascentCut bytes and the bytes behind them
NascentMenu ==
    UNION { { HsData(NascentStreams[i], 0, Len(NascentStreams[i])),
              HsData(NascentStreams[i], 0, NascentCut),
              HsData(NascentStreams[i], NascentCut, Len(NascentStreams[i])) }
            : i \in 1..Len(NascentStreams) }
        \cup { Syn(PortA.port), ClientData(PortA.port, 0, 7) }

InitNascent ==
    /\ InitTable
    /\ InitOther
    /\ budget = MaxNascentCalls

NextNascent ==
    \E seg \in NascentMenu :
        \/ ProcessSyn(seg)
        \/ ProcessData(seg)

SpecNascent == InitNascent /\ [][NextNascent]_vars

\* the session a data segment is routed to, as it is before the call
Before(seg) == routed(seg).session

\* the inbound bytes the detector sees in the call that handles seg
Pending(seg) == Before(seg).pendingInbound_ \o seg.payload

\* a call that hands an inbound payload to a session without cipher streams
NascentCall(seg) ==
    /\ budget' # budget
    /\ isData(seg)
    /\ ~Before(seg).initialized_
    /\ isFromServer(Before(seg), seg)

\* the session stays as it was, with the payload appended to its inbound bytes
StaysNascent(seg, after) ==
    /\ ~after.initialized_
    /\ after.inboundStream_ = NoStream
    /\ after.outboundStream_ = NoStream
    /\ after.version_ = Before(seg).version_
    /\ after.locale_ = Before(seg).locale_
    /\ after.sendIV_ = Before(seg).sendIV_
    /\ after.recvIV_ = Before(seg).recvIV_
    /\ after.pendingInbound_ = Pending(seg)

\* C13 as stated: the call that completes the 23 scenario bytes in the
\* inbound buffer of a Nascent session returns one handshake packet with
\* version 0x0055, sub-version string "1234567", locale 6, length 16, and the
\* session holds local IV 46 72 EE 4D and remote IV 5C B6 7D A3.
C13_ScenarioDetected ==
    [][ (NascentCall(lastSeg') /\ Pending(lastSeg') = ScenarioBytes) =>
            /\ Len(results') = 1
            /\ results'[1].isHandshake
            /\ results'[1].version = 85
            /\ results'[1].subVersionStr = << 49, 50, 51, 52, 53, 54, 55 >>
            /\ results'[1].locale = 6
            /\ results'[1].length = 16
            /\ heap'[Before(lastSeg').sessionId_].sendIV_ = << 70, 114, 238, 77 >>
            /\ heap'[Before(lastSeg').sessionId_].recvIV_ = << 92, 182, 125, 163 >>
      ]_vars

\* C13 amended: the scenario's size field is 0x0E, not above 0x10, so the
\* short form is applied; it reads the locale at offset 16 (0x4D > 0x12) and
\* the detector rejects: no packet is returned and the session stays Nascent
\* with the 23 bytes buffered.
C13_ScenarioRejected ==
    [][ (NascentCall(lastSeg') /\ Pending(lastSeg') = ScenarioBytes) =>
            /\ results' = << >>
            /\ StaysNascent(lastSeg', heap'[Before(lastSeg').sessionId_])
      ]_vars

\* the scenario bytes arrived in two segments and are buffered, no packet
\* was emitted
C13_Witness ==
    /\ lastSeg = HsData(ScenarioBytes, NascentCut, Len(ScenarioBytes))
    /\ 1 \in DOMAIN heap
    /\ heap[1].pendingInbound_ = ScenarioBytes
    /\ ~heap[1].initialized_
    /\ emitted = << >>


\* the rejections of the detector, read from the bytes: fewer than 2 + size
\* bytes, a string longer than 100 in the standard form, a locale byte that
\* is 0 or above 0x12
WireTooShort(p) == Len(p) < 2 \/ Len(p) < 2 + U16LE(p, 0)

WireLongString(p) == Len(p) >= 6 /\ U16LE(p, 0) > 16 /\ U16LE(p, 4) > 100

WireLocaleAt(p) == IF U16LE(p, 0) > 16 THEN 6 + U16LE(p, 4) + 9 ELSE 17

WireBadLocale(p) ==
    /\ Len(p) >= 6
    /\ WireLocaleAt(p) <= Len(p)
    /\ (p[WireLocaleAt(p)] = 0 \/ p[WireLocaleAt(p)] > 18)

WireRejected(p) == WireTooShort(p) \/ WireLongString(p) \/ WireBadLocale(p)

\* C14: when the detector rejects the inbound bytes (fewer than 2 + size
\* bytes buffered, locale 0 or above 0x12, or string longer than 100), the
\* call returns no packet and the session stays Nascent: no cipher stream,
\* version, locale and IVs as before, and the payload appended to the inbound
\* bytes already buffered.
C14_RejectKeepsNascent ==
    [][ (NascentCall(lastSeg') /\ WireRejected(Pending(lastSeg'))) =>
            /\ results' = << >>
            /\ StaysNascent(lastSeg', heap'[Before(lastSeg').sessionId_])
      ]_vars

\* a handshake with locale 0 was rejected, and the payload of a later
\* segment was appended behind its bytes
C14_Witness ==
    /\ 1 \in DOMAIN heap
    /\ ~heap[1].initialized_
    /\ heap[1].pendingInbound_ = NascentStreams[2] \o HandshakeBytes
    /\ lastSeg = HsData(HandshakeBytes, 0, Len(HandshakeBytes))
    /\ emitted = << >>


-----------------------------------------------------------------------------
(* SpecFrame: process() on raw Ethernet frames                             *)

MaxFrameCalls == 3

Zeros(n) == [i \in 1..n |-> 0]

BE16(n) == << n \div 256, n % 256 >>

BE32(n) == BE16(n \div 65536) \o BE16(n % 65536)

FlagByte(seg) ==
    (IF seg.fin THEN 1 ELSE 0) + (IF seg.syn THEN 2 ELSE 0)
        + (IF seg.rst THEN 4 ELSE 0) + (IF seg.ack THEN 16 ELSE 0)

\* a frame around a segment: EtherType, IP version, IHL, IP protocol, TCP
\* data offset, and the bytes of IP and TCP options
RawFrame(etherType, version, ihl, proto, doff, ipOpt, tcpOpt, seg) ==
    Zeros(12) \o BE16(etherType)
        \o << version * 16 + ihl, 0, 0, 0, 0, 0, 0, 0, 64, proto, 0, 0 >>
        \o BE32(seg.srcIP) \o BE32(seg.dstIP) \o Zeros(ipOpt)
        \o BE16(seg.srcPort) \o BE16(seg.dstPort)
        \o BE16(seg.seq[1]) \o BE16(seg.seq[2]) \o Zeros(4)
        \o << doff * 16, FlagByte(seg) >> \o Zeros(6) \o Zeros(tcpOpt)
        \o seg.payload

EtherFrame(seg) == RawFrame(2048, 4, 5, 6, 5, 0, 0, seg)

FrameSegments ==
    { Syn(PortA.port), SynAck(PortA.port), ServerData(PortA.port, 0, HsLen),
      ClientData(PortA.port, 0, 7), Fin(PortA.port) }

\* frames process() is to accept: plain, with IP options, with TCP options
GoodFrames ==
    UNION { { EtherFrame(seg),
              RawFrame(2048, 4, 6, 6, 5, 4, 0, seg),
              RawFrame(2048, 4, 5, 6, 6, 0, 4, seg) } : seg \in FrameSegments }

\* frames process() is to skip: too short for Ethernet, IPv6 EtherType, IP
\* version 6, UDP, an IHL or a data offset below 5 or beyond the frame, and
\* frames cut inside the IP header and inside the TCP header
BadFrames ==
    UNION { { SubSeq(EtherFrame(seg), 1, 13),
              RawFrame(34525, 4, 5, 6, 5, 0, 0, seg),
              RawFrame(2048, 6, 5, 6, 5, 0, 0, seg),
              RawFrame(2048, 4, 5, 17, 5, 0, 0, seg),
              RawFrame(2048, 4, 0, 6, 5, 0, 0, seg),
              RawFrame(2048, 4, 4, 6, 5, 0, 0, seg),
              RawFrame(2048, 4, 15, 6, 5, 0, 0, seg),
              RawFrame(2048, 4, 5, 6, 0, 0, 0, seg),
              RawFrame(2048, 4, 5, 6, 4, 0, 0, seg),
              RawFrame(2048, 4, 5, 6, 15, 0, 0, seg),
              SubSeq(EtherFrame(seg), 1, 14 + 19),
              SubSeq(EtherFrame(seg), 1, 14 + 20 + 19) }
            : seg \in { Syn(PortA.port), ClientData(PortA.port, 0, 7) } }

FrameMenu == GoodFrames \cup BadFrames

\* the capture hands over the next frame
Capture(data) ==
    /\ ~crashed
    /\ budget > 0
    /\ input' = data
    /\ UNCHANGED << sessions_, heap, nextSessionId_, results, emitted, lastSeg,
                    budget, crashed, stream, reasm, drained, trace, threadVars, sideVars >>

\* parseTcp fails: process() returns the empty list
DropFrame ==
    /\ ~crashed
    /\ budget > 0
    /\ ~parseTcp(input).ok
    /\ budget' = budget - 1
    /\ Returned(<< >>)
    /\ UNCHANGED << sessions_, heap, nextSessionId_, lastSeg, crashed,
                    streamVars, reasmVars, trace, threadVars, sideVars >>

ProcessParsed(seg) ==
    \/ ProcessFinRst(seg)
    \/ ProcessSyn(seg)
    \/ ProcessSynAck(seg)
    \/ ProcessSkip(seg)
    \/ ProcessData(seg)

ProcessFrame ==
    /\ parseTcp(input).ok
    /\ ProcessParsed(parseTcp(input).seg)

InitFrame ==
    /\ InitTable
    /\ InitOther
    /\ budget = MaxFrameCalls

NextFrame ==
    \/ \E data \in FrameMenu : Capture(data)
    \/ DropFrame
    \/ ProcessFrame

SpecFrame == InitFrame /\ [][NextFrame]_vars

\* the conditions of a frame process() is to accept
EtherOk(data) == Len(data) >= 14 /\ BE16At(data, 12) = 2048

IpOk(data) ==
    /\ Len(data) >= 14 + 20
    /\ data[15] \div 16 = 4
    /\ data[24] = 6
    /\ (data[15] % 16) * 4 >= 20
    /\ 14 + (data[15] % 16) * 4 <= Len(data)

TcpAt(data) == 14 + (data[15] % 16) * 4

TcpOk(data) ==
    /\ Len(data) >= TcpAt(data) + 20
    /\ (data[TcpAt(data) + 13] \div 16) * 4 >= 20
    /\ TcpAt(data) + (data[TcpAt(data) + 13] \div 16) * 4 <= Len(data)

WellFormed(data) == EtherOk(data) /\ IpOk(data) /\ TcpOk(data)

\* C15: process() accepts a frame only if it has at least 14 bytes,
\* EtherType 0x0800, IP version 4, IP protocol 6, IHL*4 >= 20 within the
\* frame and TCP data offset*4 >= 20 within the frame; on every other frame
\* the call returns no packet and leaves the table and the Sessions as they
\* are.
C15_AcceptsOnlyWellFormed ==
    [][ (budget' # budget /\ ~WellFormed(input)) =>
            /\ results' = << >>
            /\ sessions_' = sessions_
            /\ heap' = heap
            /\ nextSessionId_' = nextSessionId_
      ]_vars


-----------------------------------------------------------------------------
(* Claims about session ids (Spec)                                         *)

\* the ids in use: of the live Sessions and of the packets emitted so far
IdsSeen ==
    { heap[h].sessionId_ : h \in DOMAIN heap }
        \cup { emitted[i].sessionId : i \in 1..Len(emitted) }

\* the Session the call for seg created
CreatedBy(table, objects, seg) == objects[table[fwdKeyOf(seg)]]

\* C16: a Session created on a SYN without ACK or on first data for an unseen
\* key gets an id above the id of every Session created before it (the ids
\* handed out are the values of a counter that only moves up, and every id in
\* use is below the counter), and every packet a call returns carries the id
\* of the Session that handled the segment.
C16_FreshIds ==
    /\ [](\A id \in IdsSeen : id < nextSessionId_)
    /\ [][ /\ nextSessionId_' >= nextSessionId_
           /\ (budget' # budget /\ ~isFinRst(lastSeg')
                 /\ ((lastSeg'.syn /\ ~lastSeg'.ack)
                        \/ (isData(lastSeg') /\ routed(lastSeg').created))) =>
                 /\ CreatedBy(sessions_', heap', lastSeg').sessionId_ = nextSessionId_
                 /\ nextSessionId_' > nextSessionId_
                 /\ \A id \in IdsSeen :
                        id < CreatedBy(sessions_', heap', lastSeg').sessionId_
           /\ (budget' # budget /\ isData(lastSeg')) =>
                 \A i \in 1..Len(results') :
                     results'[i].sessionId = Before(lastSeg').sessionId_
         ]_vars

\* a first Session was created and closed, then a second one was created by
\* first data on the other port: its handshake packet carries the second id
C16_Witness ==
    /\ nextSessionId_ = 3
    /\ DOMAIN heap = { 2 }
    /\ lastSeg = ServerData(PortB.port, 0, HsLen)
    /\ Len(results) = 1 /\ results[1].isHandshake /\ results[1].sessionId = 2


-----------------------------------------------------------------------------
(* SpecLock: process() called from several threads                         *)

MaxLockCalls == 3

\* a lock that is taken whether or not another thread holds it
lockAnyway(m) == TRUE

\* std::lock_guard<std::mutex> lock(mutex_) returns once the mutex is free
canLock(m) == m = Unlocked

\* what a call leaves behind: the table, the Sessions, the id counter and
\* the packets it returns
Outcome(table, objects, nextId, pkts, ub) ==
    [table |-> table, objects |-> objects, nextId |-> nextId,
     results |-> pkts, ub |-> ub]

\* FIN/RST: every key of the session is erased
closeSession(table, objects, nextId, old) ==
    Outcome(eraseSession(table, old),
            liveObjects(eraseSession(table, old), objects), nextId, << >>, FALSE)

createdOnSyn(table, objects, nextId, seg) ==
    Outcome(assign(table, fwdKeyOf(seg), nextId),
            liveObjects(assign(table, fwdKeyOf(seg), nextId),
                (nextId :> initClientSeq(
                     [NewSession(nextId) EXCEPT !.clientPort = seg.srcPort],
                     SeqAdd(seg.seq, 1))) @@ objects),
            nextId + 1, << >>, FALSE)

\* SYN: the session found is erased and a fresh one is created
synSession(table, objects, nextId, seg, old) ==
    createdOnSyn(IF old # NoSession THEN eraseSession(table, old) ELSE table,
                 objects, nextId, seg)

\* SYN-ACK: the server's sequence number is recorded in the session found
synAckSession(table, objects, nextId, seg, old) ==
    Outcome(table,
            IF old # NoSession
            THEN [objects EXCEPT ![old] = initServerSeq(@, SeqAdd(seg.seq, 1))]
            ELSE objects,
            nextId, << >>, FALSE)

stored(table, objects, nextId, seg, pr) ==
    Outcome(registerKeys(table, pr.session, seg),
            (pr.session.sessionId_ :> pr.session) @@ objects,
            nextId, pr.results, pr.ub)

\* data: the session found, or a new one, handles the segment
dataSegment(table, objects, nextId, seg, old) ==
    IF old # NoSession
    THEN stored(table, objects, nextId, seg, processSegment(objects[old], seg))
    ELSE stored(assign(table, fwdKeyOf(seg), nextId), objects, nextId + 1, seg,
                processSegment(NewSession(nextId), seg))

\* process() from the lookup's result on
afterLookup(table, objects, nextId, seg, old) ==
    IF (seg.fin \/ seg.rst) /\ old # NoSession
    THEN closeSession(table, objects, nextId, old)
    ELSE IF seg.syn /\ ~seg.ack THEN synSession(table, objects, nextId, seg, old)
    ELSE IF seg.syn THEN synAckSession(table, objects, nextId, seg, old)
    ELSE IF Len(seg.payload) <= 0 THEN Outcome(table, objects, nextId, << >>, FALSE)
    ELSE IF old # NoSession /\ objects[old].terminated_
         THEN Outcome(table, objects, nextId, << >>, FALSE)
    ELSE dataSegment(table, objects, nextId, seg, old)

LockFrames ==
    { EtherFrame(Syn(PortA.port)), EtherFrame(ServerData(PortA.port, 0, HsLen)),
      EtherFrame(ClientData(PortA.port, 0, 7)), EtherFrame(Fin(PortA.port)),
      SubSeq(EtherFrame(Syn(PortA.port)), 1, 13) }

Moved(t, next) == threads' = [threads EXCEPT ![t] = next]

\* the capture callback calls process(raw); parseTcp runs before the lock
Callback(t, data) ==
    /\ ~crashed
    /\ budget > 0
    /\ threads[t].pc = "idle"
    /\ budget' = budget - 1
    /\ Moved(t, IF parseTcp(data).ok
                THEN [IdleThread EXCEPT !.pc = "lock", !.seg = parseTcp(data).seg]
                ELSE IdleThread)
    /\ UNCHANGED << sessions_, heap, nextSessionId_, results, emitted, lastSeg,
                    crashed, streamVars, reasmVars, sideVars, trace, mutex_ >>

\* std::lock_guard<std::mutex> lock(mutex_)
Lock(t) ==
    /\ threads[t].pc = "lock"
    /\ canLock(mutex_)
    /\ mutex_' = t
    /\ Moved(t, [threads[t] EXCEPT !.pc = "lookup"])
    /\ UNCHANGED << sessions_, heap, nextSessionId_, results, emitted, lastSeg,
                    budget, crashed, streamVars, reasmVars, sideVars, trace >>

\* the session is looked up under the forward key, then the reverse key
Lookup(t) ==
    /\ threads[t].pc = "lookup"
    /\ Moved(t, [threads[t] EXCEPT !.pc = "handle",
                                   !.session = findSession(sessions_, threads[t].seg)])
    /\ UNCHANGED << sessions_, heap, nextSessionId_, results, emitted, lastSeg,
                    budget, crashed, streamVars, reasmVars, sideVars, trace, mutex_ >>

Handled(t, out) ==
    /\ sessions_' = out.table
    /\ heap' = out.objects
    /\ nextSessionId_' = out.nextId
    /\ crashed' \in (IF out.ub THEN {FALSE, TRUE} ELSE {FALSE})
    /\ Moved(t, [threads[t] EXCEPT !.pc = "unlock", !.results = out.results])

\* the table and the session are changed with the session found
Handle(t) ==
    /\ ~crashed
    /\ threads[t].pc = "handle"
    /\ Handled(t, afterLookup(sessions_, heap, nextSessionId_, threads[t].seg,
                              threads[t].session))
    /\ UNCHANGED << results, emitted, lastSeg, budget, streamVars, reasmVars, sideVars,
                    trace, mutex_ >>

\* process() returns: the lock_guard releases the mutex; the callback goes
\* on to addPackets only with a non-empty list
Return(t) ==
    /\ threads[t].pc = "unlock"
    /\ mutex_' = Unlocked
    /\ Moved(t, IF Len(threads[t].results) = 0 THEN IdleThread
                ELSE [threads[t] EXCEPT !.pc = "sink"])
    /\ UNCHANGED << sessions_, heap, nextSessionId_, results, emitted, lastSeg,
                    budget, crashed, streamVars, reasmVars, sideVars, trace >>

\* mApp.addPackets(packets)
AddPackets(t) ==
    /\ threads[t].pc = "sink"
    /\ emitted' = emitted \o threads[t].results
    /\ Moved(t, IdleThread)
    /\ UNCHANGED << sessions_, heap, nextSessionId_, results, lastSeg, budget,
                    crashed, streamVars, reasmVars, sideVars, trace, mutex_ >>

InitLock ==
    /\ InitTable
    /\ InitOther
    /\ budget = MaxLockCalls

NextLock ==
    \E t \in Threads :
        \/ \E data \in LockFrames : Callback(t, data)
        \/ Lock(t)
        \/ Lookup(t)
        \/ Handle(t)
        \/ Return(t)
        \/ AddPackets(t)

SpecLock == InitLock /\ [][NextLock]_vars

\* between the lookup and the end of the segment's handling
InTable(t) == threads[t].pc \in { "lookup", "handle", "unlock" }

\* C17: the table operations and the segment handling of two concurrent
\* calls never interleave: a thread between its lookup and the end of its
\* handling holds the table lock and no other thread is in that region; and a
\* thread in the sink (addPackets) does not hold the table lock.
C17_LockDiscipline ==
    /\ \A t \in Threads : InTable(t) => mutex_ = t
    /\ \A t, u \in Threads : (InTable(t) /\ InTable(u)) => t = u
    /\ \A t \in Threads : threads[t].pc = "sink" => mutex_ # t

\* one thread is in the sink with the handshake packet while another holds
\* the lock and handles its segment
C17_Witness ==
    \E t, u \in Threads :
        /\ threads[t].pc = "sink"
        /\ Len(threads[t].results) > 0
        /\ threads[u].pc = "handle"
        /\ mutex_ = u


-----------------------------------------------------------------------------
(* SpecKey: the AES keys of the two streams a handshake creates            *)

\* versions are drawn from windows of this width at 0, around 0x8000 and
\* below 0x10000
VersionWindow == 40

MaxKeyCalls == 1

KeyVersions ==
    (0..(VersionWindow - 1))
        \cup ((32768 - VersionWindow)..(32767 + VersionWindow))
        \cup ((65536 - VersionWindow)..65535)

\* the locales the detector accepts
KeyLocales == 1..18

KeyHandshake(version, locale) ==
    HsData(HandshakeStd(version, PatchDigits, Endpoint.localIV,
                        Endpoint.remoteIV, locale), 0, 4 + 13 + 2)

\* the first inbound segment of a connection carries the handshake
ProcessHandshake(seg) ==
    /\ DOMAIN heap = {}
    /\ ProcessData(seg)

InitKey ==
    /\ InitTable
    /\ InitOther
    /\ budget = MaxKeyCalls

NextKey ==
    \E version \in KeyVersions, locale \in KeyLocales :
        ProcessHandshake(KeyHandshake(version, locale))

SpecKey == InitKey /\ [][NextKey]_vars

\* the key built from entry idx of the secrets: every fourth byte, at its place
SecretKeyAt(idx) ==
    [k \in 1..32 |-> IF k % 4 = 1 THEN secretKeys_[idx + 1][k] ELSE 0]

\* the version a stream's cipher selects its key with
KeyVersionOf(s) ==
    IF s.aes.version >= 32768 THEN 65535 - s.aes.version ELSE s.aes.version

\* C18: for every handshake version and accepted locale the inbound stream
\* (constructed with 0xFFFF - version) and the outbound stream (constructed
\* with version) hold the same 32-byte AES key: the default key when the
\* locale is not 6, and for locale 6 the key of the same secrets entry,
\* key version mod 20.
C18_SameKey ==
    \A h \in DOMAIN heap :
        heap[h].initialized_ =>
            /\ heap[h].outboundStream_.aes.version = heap[h].version_
            /\ heap[h].inboundStream_.aes.version = 65535 - heap[h].version_
            /\ heap[h].inboundStream_.aes.aesKey = heap[h].outboundStream_.aes.aesKey
            /\ heap[h].locale_ # 6 =>
                   heap[h].outboundStream_.aes.aesKey = defaultSecretKey_
            /\ heap[h].locale_ = 6 =>
                   /\ KeyVersionOf(heap[h].inboundStream_)
                          = KeyVersionOf(heap[h].outboundStream_)
                   /\ heap[h].outboundStream_.aes.aesKey
                          = SecretKeyAt(KeyVersionOf(heap[h].outboundStream_) % 20)

\* a locale-6 handshake with version 0x8000: the outbound stream is the one
\* constructed with a version that is negative as int16_t
C18_Witness ==
    /\ 1 \in DOMAIN heap
    /\ heap[1].initialized_
    /\ heap[1].locale_ = 6
    /\ heap[1].version_ = 32768
    /\ heap[1].inboundStream_.aes.version = 32767


-----------------------------------------------------------------------------
(* SpecAgree: a seeded TcpReasm fed segments of one logical stream         *)

MaxAgreeOps == 4

MaxAgreeOff == 4

MaxAgreeLen == 3

\* the reassembler is seeded at this offset of the logical stream, so that
\* segments that start before the seed occur
SeedOffset == 1

AgreeSeed == SeqAdd(ReasmBase, SeedOffset)

\* segments of the logical stream: every offset and length, overlapping,
\* repeated and in any order; the sequence numbers wrap at offset 4
AgreeMenu ==
    { ReasmSegment(off, len, FALSE) : off \in 0..MaxAgreeOff, len \in 1..MaxAgreeLen }

InitAgree ==
    /\ InitTable
    /\ crashed = FALSE
    /\ InitStream
    /\ reasm = init(NewReasm, AgreeSeed)
    /\ drained = << >>
    /\ trace = NoTrace
    /\ budget = MaxAgreeOps

NextAgree ==
    \/ \E seg \in AgreeMenu : AddSegment(seg)
    \/ \E holdLast \in BOOLEAN : Drain(holdLast)

SpecAgree == InitAgree /\ [][NextAgree]_vars

\* the bytes [from, from + n) of the logical stream
StreamBytes(from, n) == [i \in 1..n |-> StreamByte(from + i - 1)]

\* C19: for a reassembler seeded with next_seq = s0 and fed segments of one
\* logical stream, the concatenation of everything drained so far is exactly
\* the stream's bytes [s0, next_seq): every byte once, in order, without gap.
C19_ExactlyOnce ==
    /\ ~SignedLeq0(SeqSub(reasm.nextSeq, AgreeSeed)) \/ reasm.nextSeq = AgreeSeed
    /\ drained = StreamBytes(SeedOffset, SeqToInt(SeqSub(reasm.nextSeq, AgreeSeed)))

\* a drain has delivered the two bytes from the seed up to a gap, out of a
\* segment that starts before the seed, while a segment beyond the gap, across
\* the sequence wrap, stays staged
C19_Witness ==
    /\ lastSeg = NoSeg
    /\ drained = StreamBytes(SeedOffset, 2)
    /\ reasm.nextSeq = SeqAdd(ReasmBase, 3)
    /\ reasm.staged = (SeqAdd(ReasmBase, 4) :> ReasmPayload(4, 2, FALSE))

-----------------------------------------------------------------------------
(* Claims about the reassemblers of a session (Spec)                       *)

\* static_cast<int32_t>(to - from) >= 0
NotBackwards(from, to) == SignedLeq0(SeqSub(from, to))

Forward(before, after) ==
    (before.initialized /\ after.initialized) =>
        NotBackwards(before.nextSeq, after.nextSeq)

\* C20: over any sequence of segments given to process() (SYN, SYN-ACK,
\* retransmitted and out-of-order segments included), the next_seq of each
\* session's reassembler, in either direction, never moves backwards in
\* wrap-aware signed 32-bit sequence space.
C20_NextSeqMonotone ==
    [][ \A h \in (DOMAIN heap) \cap (DOMAIN heap') :
            /\ Forward(heap[h].serverReasm_, heap'[h].serverReasm_)
            /\ Forward(heap[h].clientReasm_, heap'[h].clientReasm_)
      ]_vars


-----------------------------------------------------------------------------
(* SpecHold: a TcpReasm at next_seq = 1000 drained with and without hold   *)

MaxHoldOps == 4

MaxHoldOff == 3

MaxHoldLen == 3

HoldBase == << 0, 1000 >>

\* the stream's bytes are the letters A, B, C, ... from seq 1000 on
HoldSegment(off, len) ==
    FromClient(PortA.port, SeqAdd(HoldBase, off), DataFlags,
               [i \in 1..len |-> 65 + off + i - 1])

HoldMenu == { HoldSegment(off, len) : off \in 0..MaxHoldOff, len \in 1..MaxHoldLen }

InitHold ==
    /\ InitTable
    /\ crashed = FALSE
    /\ InitStream
    /\ reasm = init(NewReasm, HoldBase)
    /\ drained = << >>
    /\ trace = NoTrace
    /\ budget = MaxHoldOps

NextHold ==
    \/ \E seg \in HoldMenu : AddSegment(seg)
    \/ \E holdLast \in BOOLEAN : Drain(holdLast)

SpecHold == InitHold /\ [][NextHold]_vars

\* the staged segments that start at or before nextSeq and end after it
Deliverable(r) ==
    { k \in DOMAIN r.staged :
          /\ ~SignedLeq0(SeqSub(SeqAdd(k, Len(r.staged[k])), r.nextSeq))
          /\ SignedLeq0(SeqSub(k, r.nextSeq)) }

\* what the two drains make of a reassembler
HoldOutcome(r, held, all) ==
    /\ Deliverable(all.reasm) = {}
    /\ Deliverable(held.reasm) # {} => Cardinality(DOMAIN held.reasm.staged) = 1
    /\ Deliverable(held.reasm) = {} => held = all
    /\ IsPrefix(held.result, all.result)
    /\ (Cardinality(DOMAIN r.staged) = 1 /\ Deliverable(r) # {}) =>
           (held.result = << >> /\ held.reasm = r)

\* the scenario: (1000,[A]) replaced by (1000,[A,B,C]), and (1003,[D])
HoldScenario(r, held, all) ==
    (r.nextSeq = HoldBase
       /\ r.staged = (HoldBase :> << 65, 66, 67 >>) @@ (SeqAdd(HoldBase, 3) :> << 68 >>)) =>
        /\ all.result = << 65, 66, 67, 68 >>
        /\ held.result = << 65, 66, 67 >>
        /\ held.reasm.staged = (SeqAdd(HoldBase, 3) :> << 68 >>)

\* C21: drain(hold_last = true) stops before a deliverable segment exactly
\* when that segment is the only one left in staging, and drain(false)
\* delivers every contiguous staged segment; with (1000,[A]), (1000,[A,B,C])
\* and (1003,[D]) staged at next_seq = 1000, drain(false) returns A,B,C,D and
\* drain(true) returns A,B,C and leaves D staged.
C21_HoldLast ==
    /\ HoldOutcome(reasm, drain(reasm, TRUE), drain(reasm, FALSE))
    /\ HoldScenario(reasm, drain(reasm, TRUE), drain(reasm, FALSE))

\* after three added segments, drain(true) has returned A,B,C and stopped
\* before D, the one segment staged
C21_Witness ==
    /\ lastSeg = NoSeg
    /\ budget = MaxHoldOps - 4
    /\ drained = << 65, 66, 67 >>
    /\ reasm.nextSeq = SeqAdd(HoldBase, 3)
    /\ reasm.staged = (SeqAdd(HoldBase, 3) :> << 68 >>)


-----------------------------------------------------------------------------
(* SpecWrap: a TcpReasm at next_seq = 0xFFFFFFF8, 8 bytes below the wrap   *)

MaxWrapOps == 4

\* segments start at the even offsets up to this one
MaxWrapOff == 8

WrapBase == << 65535, 65528 >>

WrapBytes(off, len) == [i \in 1..len |-> 32 + off + i - 1]

WrapSegment(off, len) ==
    FromClient(PortA.port, SeqAdd(WrapBase, off), DataFlags, WrapBytes(off, len))

\* segments of 2 and 4 bytes: the three of the scenario at offsets 0, 4 and
\* 8 (seq 0xFFFFFFF8, 0xFFFFFFFC and 0), and segments that overlap them
WrapMenu ==
    { WrapSegment(off, len) :
          off \in { o \in 0..MaxWrapOff : o % 2 = 0 }, len \in { 2, 4 } }

InitWrap ==
    /\ InitTable
    /\ crashed = FALSE
    /\ InitStream
    /\ reasm = init(NewReasm, WrapBase)
    /\ drained = << >>
    /\ trace = NoTrace
    /\ budget = MaxWrapOps

NextWrap ==
    \/ \E seg \in WrapMenu : AddSegment(seg)
    \/ \E holdLast \in BOOLEAN : Drain(holdLast)

SpecWrap == InitWrap /\ [][NextWrap]_vars

\* static_cast<int32_t>(seg_start - next_seq) > 0
Future(k, nextSeq) == ~SignedLeq0(SeqSub(k, nextSeq))

\* static_cast<int32_t>(seg_end - next_seq) <= 0
Delivered(k, len, nextSeq) == SignedLeq0(SeqSub(SeqAdd(k, len), nextSeq))

\* drain(false) leaves the future segments staged as they are, takes every
\* other one out, and returns the stream's bytes between the two next_seq
WrapOutcome(r, all) ==
    /\ \A k \in DOMAIN all.reasm.staged :
           /\ Future(k, all.reasm.nextSeq)
           /\ all.reasm.staged[k] = r.staged[k]
    /\ \A k \in (DOMAIN r.staged) \ (DOMAIN all.reasm.staged) :
           Delivered(k, Len(r.staged[k]), all.reasm.nextSeq)
    /\ all.result = WrapBytes(SeqToInt(SeqSub(r.nextSeq, WrapBase)),
                              SeqToInt(SeqSub(all.reasm.nextSeq, r.nextSeq)))

WrapScenario(r, all) ==
    (r.nextSeq = WrapBase
       /\ r.staged = (WrapBase :> WrapBytes(0, 4))
                        @@ (SeqAdd(WrapBase, 4) :> WrapBytes(4, 4))
                        @@ (<< 0, 0 >> :> WrapBytes(8, 4))) =>
        /\ all.result = WrapBytes(0, 12)
        /\ all.reasm.nextSeq = << 0, 4 >>

\* C22: with next_seq = 0xFFFFFFF8 and 4-byte segments staged at 0xFFFFFFF8,
\* 0xFFFFFFFC and 0, drain(false) returns the 12 bytes in stream order and
\* leaves next_seq = 4; in general drain treats a staged segment as delivered,
\* deliverable or future by the signed 32-bit differences to next_seq, not by
\* the order of the keys.
C22_SequenceWrap ==
    /\ WrapOutcome(reasm, drain(reasm, FALSE))
    /\ WrapScenario(reasm, drain(reasm, FALSE))
    /\ drained = WrapBytes(0, SeqToInt(SeqSub(reasm.nextSeq, WrapBase)))

\* three 4-byte segments were staged across the wrap and one drain has
\* returned their 12 bytes
C22_Witness ==
    /\ lastSeg = NoSeg
    /\ budget = MaxWrapOps - 4
    /\ drained = WrapBytes(0, 12)
    /\ reasm.nextSeq = << 0, 4 >>
    /\ reasm.staged = [k \in {} |-> << >>]


-----------------------------------------------------------------------------
(* Conservation of the bytes of one MapleStream (SpecStream)               *)

\* length of the frame at the front of bytes, as its header declares it
frameLength(bytes) == getHeaderLength(bytes) + getPacketLength(bytes, Len(bytes))

\* the ciphertext payload of the frame at the front of bytes
frameCipher(bytes) == SubSeq(bytes, getHeaderLength(bytes) + 1, frameLength(bytes))

\* the decrypted bytes of a packet: opcode (little-endian), then payload
plainOf(pkt) == << pkt.opcode % 256, pkt.opcode \div 256 >> \o pkt.payload

RECURSIVE IsFraming(_, _, _, _)
\* bytes = (header ++ ciphertext) of pkts[1], pkts[2], ... in this order,
\* then rest; s is the stream before the first of these packets
IsFraming(s, bytes, pkts, rest) ==
    IF pkts = << >> THEN bytes = rest
    ELSE /\ Len(bytes) >= 4
         /\ Len(bytes) >= frameLength(bytes)
         /\ decryptPayload(s, frameCipher(bytes)) = plainOf(Head(pkts))
         /\ IsFraming(Shifted(s, 1), Drop(bytes, frameLength(bytes)), Tail(pkts), rest)

\* a tryRead that returns a packet takes header_len + payload_len bytes from
\* the front of the buffer and keeps the bytes behind them
ConsumesFrame ==
    (input' = input /\ Len(results') = 1) =>
        /\ Len(stream.buffer_) >= frameLength(stream.buffer_)
        /\ stream'.buffer_ = Drop(stream.buffer_, frameLength(stream.buffer_))

\* C23: the bytes fed to a cipher stream so far are the headers and
\* ciphertext payloads of the emitted packets, in emission order, followed by
\* the bytes still buffered; each emitted packet takes exactly header_len +
\* payload_len bytes from the front of the buffer and the rest keeps its order.
C23_ByteConservation ==
    /\ [](stream # NoStream => IsFraming(Stream0(stream), input, emitted, stream.buffer_))
    /\ [][ConsumesFrame]_vars

\* the outbound stream has emitted four packets, the last under an 8-byte
\* header, and bytes of the next frame are buffered
C23_Witness ==
    /\ stream # NoStream
    /\ stream.outbound
    /\ Len(emitted) = 4
    /\ Len(stream.buffer_) > 0
    /\ Len(input) = Len(OutWire)


-----------------------------------------------------------------------------
(* SpecIv: cipher streams of both directions, transforms, keys and payloads *)

MaxIvChunk == 5

\* the builds of the streams
IvBuilds == { 263, 264 }

\* locale 6 selects the generated key, locale 8 the default key
IvLocales == { 6, 8 }

IvOf(outbound) == IF outbound THEN Endpoint.localIV ELSE Endpoint.remoteIV

IvStreams ==
    { MapleStream(outbound, build, locale, IvOf(outbound), extraCipher) :
          outbound \in BOOLEAN, build \in IvBuilds, locale \in IvLocales,
          extraCipher \in BOOLEAN }

\* the stream as it was constructed
IvStream0(s) ==
    [s EXCEPT !.aes.iv = IvOf(s.outbound), !.buffer_ = << >>,
              !.expectedDataSize_ = 4]

\* the frames sent depend on the build
IvPlains(s) ==
    IF s.aes.version \in { 263, 65535 - 263 }
    THEN << Plain(5, << 177 >>), Plain(9, << 178, 1 >>) >>
    ELSE << Plain(7, << >>), Plain(300, << 1, 2, 3 >>) >>

\* two frames, then bytes that fail the header check
IvWire(s) == encodeFrames(IvStream0(s), IvPlains(s)) \o << 1, 2, 3, 4 >>

\* stream.append(data, len) with the next n bytes of the wire
IvAppend(n) ==
    /\ StreamStep
    /\ Len(input) < Len(IvWire(stream))
    /\ LET chunk == SubSeq(IvWire(stream), Len(input) + 1,
                           Min(Len(input) + n, Len(IvWire(stream))))
       IN  /\ stream' = append(stream, chunk)
           /\ input' = input \o chunk
    /\ UNCHANGED << results, emitted, crashed >>

InitIv ==
    /\ InitTable
    /\ InitReasm
    /\ crashed = FALSE
    /\ trace = NoTrace
    /\ budget = 0
    /\ stream \in IvStreams
    /\ input = << >>

NextIv ==
    \/ \E n \in 1..MaxIvChunk : IvAppend(n)
    \/ TryRead

SpecIv == InitIv /\ [][NextIv]_vars

\* the seed F2 53 50 C6 stepped with the four bytes of the old IV in order
StepIv(iv) ==
    morph(iv[4], morph(iv[3], morph(iv[2], morph(iv[1], << 242, 83, 80, 198 >>))))

RECURSIVE IvAfter(_, _)
IvAfter(iv, n) == IF n = 0 THEN iv ELSE IvAfter(StepIv(iv), n - 1)

\* append and a tryRead without a packet keep the IV; a tryRead with a
\* packet steps it once
IvStep ==
    /\ input' # input => stream'.aes.iv = stream.aes.iv
    /\ (input' = input /\ results' = << >>) => stream'.aes.iv = stream.aes.iv
    /\ (input' = input /\ Len(results') = 1) => stream'.aes.iv = StepIv(stream.aes.iv)

\* C24: the IV of a cipher stream is replaced once per emitted packet, under
\* both transforms, by the seed F2 53 50 C6 morphed with the four old IV
\* bytes in order, and is left alone by append and by a tryRead that emits
\* nothing; after n packets it depends on the initial IV and on n only.
C24_IvSchedule ==
    /\ [](stream # NoStream =>
              stream.aes.iv = IvAfter(IvOf(stream.outbound), Len(emitted)))
    /\ [][IvStep]_vars

\* a data-shift stream with the default key has emitted its two packets, and
\* a tryRead on the bytes behind them has emitted nothing
C24_Witness ==
    /\ stream # NoStream
    /\ stream.useNewDataShift_
    /\ stream.aes.aesKey = defaultSecretKey_
    /\ Len(emitted) = 2
    /\ results = << >>
    /\ Len(stream.buffer_) = 4


-----------------------------------------------------------------------------
(* Claims about the keys of a connection (Spec)                            *)

\* a segment with the 4-tuple of key
KeySegment(key) ==
    [srcIP |-> key[1], dstIP |-> key[2], srcPort |-> key[3], dstPort |-> key[4]]

\* the Session a segment with this 4-tuple resolves to
Resolves(table, key) == findSession(table, KeySegment(key))

\* the client-to-server 4-tuple of the connection from a client port
ClientKey(port) ==
    ConnectionKey(Endpoint.clientIP, Endpoint.serverIP, port, Endpoint.serverPort)

Ports == { PortA.port, PortB.port }

\* the two directions of every connection resolve to the same Session
BothWays(table) ==
    \A port \in Ports :
        Resolves(table, ClientKey(port)) = Resolves(table, reverse(ClientKey(port)))

\* the call for seg has created a Session
Creates(seg) ==
    /\ ~isFinRst(seg)
    /\ \/ seg.syn /\ ~seg.ack
       \/ isData(seg) /\ routed(seg).created

\* both directions of the segment's connection resolve to the new Session
ResolveCreated ==
    (budget' # budget /\ Creates(lastSeg')) =>
        /\ Resolves(sessions_', fwdKeyOf(lastSeg')) = nextSessionId_
        /\ Resolves(sessions_', reverse(fwdKeyOf(lastSeg'))) = nextSessionId_

\* both directions keep resolving to a Session while the table holds it
ResolveKept ==
    \A port \in Ports :
        LET id == Resolves(sessions_, ClientKey(port))
        IN  (id # NoSession /\ id \in Range(sessions_')) =>
                /\ Resolves(sessions_', ClientKey(port)) = id
                /\ Resolves(sessions_', reverse(ClientKey(port))) = id

\* C25: from the call that creates a Session (a SYN or first data) until the
\* Session is removed, a segment with the connection's client-to-server
\* 4-tuple and a segment with the reverse 4-tuple both resolve, by the forward
\* and then the reverse lookup, to that Session.
C25_BothDirectionsResolve ==
    /\ []BothWays(sessions_)
    /\ [][ResolveCreated /\ ResolveKept]_vars

\* an initialized Session created on a SYN, held under both 4-tuples, has
\* just handled a segment of the client
C25_Witness ==
    /\ ClientKey(PortA.port) \in DOMAIN sessions_
    /\ reverse(ClientKey(PortA.port)) \in DOMAIN sessions_
    /\ Resolves(sessions_, ClientKey(PortA.port)) = 1
    /\ Resolves(sessions_, reverse(ClientKey(PortA.port))) = 1
    /\ heap[1].initialized_
    /\ heap[1].clientPort = PortA.port
    /\ lastSeg = ClientData(PortA.port, 0, 7)


\* the keys of the table that map to a Session
KeysOf(table, id) == { k \in DOMAIN table : table[k] = id }

\* the server-to-client 4-tuple of a connection and its reverse
ConnectionKeys(port) == { reverse(ClientKey(port)), ClientKey(port) }

\* C26: once a Session is Initialized, the only keys of the table that map
\* to it are the server-to-client 4-tuple (serverIP, clientIP, serverPort,
\* clientPort) and its reverse; no later segment registers another key for it,
\* in particular none whose source and destination are both the server.
C26_OnlyConnectionKeys ==
    \A id \in DOMAIN heap :
        heap[id].initialized_ =>
            \E port \in Ports : KeysOf(sessions_, id) \subseteq ConnectionKeys(port)


-----------------------------------------------------------------------------
(* SpecFlush: client data buffered before the handshake is detected        *)

MaxFlushCalls == 4

\* a client whose first frame ends at sequence number 0
WrapISN == << 65535, 65536 - 1 - OutFrame2 >>

ClientISNs == { Endpoint.clientISN, WrapISN }

FlushSyn(isn) ==
    FromClient(PortA.port, isn, Flags(TRUE, FALSE, FALSE, FALSE), << >>)

\* bytes [from, to) of the client stream of a connection that began at isn
FlushClient(isn, from, to) ==
    FromClient(PortA.port, SeqAdd(isn, 1 + from), DataFlags,
               SubSeq(ClientStream, from + 1, to))

\* SYNs, the client's first two frames, and the handshake alone, with the
\* first and with the first two frames of the server
FlushMenu ==
    { FlushSyn(isn) : isn \in ClientISNs }
        \cup { FlushClient(isn, 0, OutFrame2) : isn \in ClientISNs }
        \cup { FlushClient(isn, OutFrame2, OutFrame3) : isn \in ClientISNs }
        \cup { ServerData(PortA.port, 0, HsLen), ServerData(PortA.port, 0, InFrame2),
               ServerData(PortA.port, 0, InFrame3) }

InitFlush ==
    /\ InitTable
    /\ InitOther
    /\ trace = NoTrace
    /\ budget = MaxFlushCalls

NextFlush ==
    \E seg \in FlushMenu :
        \/ ProcessSyn(seg)
        \/ ProcessData(seg)

SpecFlush == InitFlush /\ [][NextFlush]_vars

\* the call for seg detects the handshake; after is the Session behind it
DetectCall(seg, after) ==
    /\ budget' # budget
    /\ isData(seg)
    /\ ~Before(seg).initialized_
    /\ after.initialized_

\* the decoded packets and the handshake packet of a result list
Visible(pkts) == SelectSeq(pkts, LAMBDA p : ~p.isDeadNotification)

\* direction and payload of each packet
View(pkts) == [i \in 1..Len(pkts) |-> << pkts[i].outbound, pkts[i].payload >>]

\* what a new cipher stream decodes from bytes
Decoded(s, bytes) == View(readAll(append(s, bytes), << >>).pkts)

\* the handshake packet, the packets of the inbound bytes behind the
\* handshake, then the packets of the buffered outbound bytes
FlushOrder(seg, pkts) ==
    /\ Len(pkts) >= 1
    /\ pkts[1].isHandshake
    /\ View(Tail(pkts)) = Decoded(InStream0, Drop(Pending(seg), HsLen))
                              \o Decoded(OutStream0, Before(seg).pendingOutbound_)

FlushEmpties(after) ==
    /\ after.pendingInbound_ = << >>
    /\ after.pendingOutbound_ = << >>

ServerSeeded(after) == after.serverReasm_.nextSeq = after.lastServerSeqEnd_

\* the client reassembler continues behind the buffered client payloads
ClientSeeded(seg, after) ==
    Before(seg).pendingOutbound_ # << >> =>
        after.clientReasm_.nextSeq = after.lastClientSeqEnd_

Flushed(seg, after, pkts) ==
    DetectCall(seg, after) =>
        /\ FlushOrder(seg, Visible(pkts))
        /\ FlushEmpties(after)
        /\ ServerSeeded(after)
        /\ ClientSeeded(seg, after)

\* C27: the call that detects the handshake returns the handshake packet,
\* then the packets decoded from the bytes of pending_inbound behind the
\* handshake, then the packets decoded from the client payloads buffered in
\* pending_outbound in arrival order; after it both buffers are empty, the
\* server reassembler's next_seq is last_server_seq_end and the client
\* reassembler's next_seq is last_client_seq_end.
C27_HandshakeFlush ==
    [][ (budget' # budget /\ isData(lastSeg')) =>
            Flushed(lastSeg', heap'[Before(lastSeg').sessionId_], results') ]_vars


-----------------------------------------------------------------------------
(* Direction of the payloads buffered before the handshake (Spec)          *)

FromClientEndpoint(seg) == seg.srcIP = Endpoint.clientIP /\ seg.dstIP = Endpoint.serverIP

FromServerEndpoint(seg) ==
    seg.srcIP = Endpoint.serverIP /\ seg.srcPort = Endpoint.serverPort

\* a client payload goes to pendingOutbound_ and nowhere else
ClientBuffered(before, seg, after) ==
    /\ after.pendingOutbound_ = before.pendingOutbound_ \o seg.payload
    /\ after.pendingInbound_ = before.pendingInbound_
    /\ after.serverIP = before.serverIP
    /\ after.serverPort = before.serverPort

\* a server payload establishes the server endpoint and, unless it completes
\* the handshake, goes to pendingInbound_
ServerBuffered(before, seg, after) ==
    /\ after.serverIP = seg.srcIP
    /\ after.serverPort = seg.srcPort
    /\ ~after.initialized_ =>
           /\ after.pendingInbound_ = before.pendingInbound_ \o seg.payload
           /\ after.pendingOutbound_ = before.pendingOutbound_

Buffered(before, seg, after) ==
    /\ FromClientEndpoint(seg) => ClientBuffered(before, seg, after)
    /\ FromServerEndpoint(seg) => ServerBuffered(before, seg, after)

\* C28: before a session is initialized, every payload of the client goes
\* to pending_outbound and never to pending_inbound, and only payloads of the
\* server go to pending_inbound and establish server_ip/server_port, also
\* when the session was created from first data without a SYN.
C28_PendingByDirection ==
    [][ (budget' # budget /\ isData(lastSeg') /\ ~Before(lastSeg').initialized_) =>
            Buffered(Before(lastSeg'), lastSeg', heap'[Before(lastSeg').sessionId_])
      ]_vars


-----------------------------------------------------------------------------
(* SpecRemap: the server sends an opcode-encryption packet with any token  *)
(* text                                                                    *)

MaxRemapCalls == 3

\* the texts have up to this many characters
MaxTextLen == 3

\* '5', '9', '|' and 'x'
TextChars == { 53, 57, 124, 120 }

\* a text padded with NUL to one 8-byte block
Padded(t) == t \o [i \in 1..(8 - Len(t)) |-> 0]

\* every text of up to MaxTextLen characters as a whole block, and the texts
\* of MaxTextLen characters as they are (less than a block)
Texts ==
    { Padded(t) : t \in UNION { [1..k -> TextChars] : k \in 0..MaxTextLen } }
        \cup [1..MaxTextLen -> TextChars]

\* the plaintext of the 0x46 packet whose blob is the encrypted text
RemapPlain(text) == Plain(70, << Len(text), 0, 0, 0 >> \o DesEncrypt(text))

\* the handshake, the 0x46 frame and the server's next frame in one segment
RemapServer(text) ==
    ServerBytes(0, HandshakeBytes
                       \o encodeFrames(InStream0, << RemapPlain(text), InPlains[2] >>))

RemapMenu(text) ==
    { RemapServer(text), ClientData(PortA.port, 0, OutFrame2),
      ClientData(PortA.port, OutFrame2, OutFrame3) }

\* input holds the text the server is going to send
InitRemap ==
    /\ InitTable
    /\ crashed = FALSE
    /\ stream = NoStream
    /\ input \in Texts
    /\ InitReasm
    /\ trace = NoTrace
    /\ budget = MaxRemapCalls

NextRemap == \E seg \in RemapMenu(input) : ProcessData(seg)

SpecRemap == InitRemap /\ [][NextRemap]_vars

\* the tokens of the text the 3DES decryption yields
TokensOf(text) == SplitTokens(DesDecrypt(DesEncrypt(text), Len(text)))

\* the first k tokens are non-empty, parse as integers and differ in value
Accepted(tokens, k) ==
    \A i \in 1..k :
        /\ Len(tokens[i]) > 0
        /\ stoi(tokens[i]).ok
        /\ \A j \in 1..(i - 1) : stoi(tokens[j]).value # stoi(tokens[i]).value

\* the length of the longest valid prefix of the tokens
ValidCount(tokens) ==
    CHOOSE k \in 0..Len(tokens) :
        /\ Accepted(tokens, k)
        /\ \A m \in (k + 1)..Len(tokens) : ~Accepted(tokens, m)

\* map takes the value of the i-th of the first n tokens (from 0) to i + 0xCC
IsRemapOf(map, tokens, n) ==
    /\ DOMAIN map = { stoi(tokens[i]).value : i \in 1..n }
    /\ \A i \in 1..n : map[stoi(tokens[i]).value] = (i - 1) + 204
    /\ Cardinality(DOMAIN map) = n
    /\ { map[k] : k \in DOMAIN map } = 204..(204 + n - 1)

\* the table a stream holds is the one of the text's longest valid prefix
RemapOfText(s, text) ==
    (s # NoStream /\ s.opcodeEncrypted_) =>
        IsRemapOf(s.encryptedOpcodes_, TokensOf(text), ValidCount(TokensOf(text)))

\* C29: parseOpcodeEncryption takes the '|'-separated tokens from left to
\* right, maps the value of the i-th accepted token to i + 0xCC and stops at
\* the first empty token, token that does not parse or repeated value, keeping
\* the entries before it: the table is injective and its values are exactly
\* 0xCC .. 0xCC + n - 1 for the n tokens of the longest valid prefix.
C29_RemapTable ==
    \A id \in DOMAIN heap :
        /\ RemapOfText(heap[id].outboundStream_, input)
        /\ RemapOfText(heap[id].inboundStream_, input)

\* the text 5|x: the scan stopped at x and the table holds 5
C29_Witness ==
    /\ input = Padded(<< 53, 124, 120 >>)
    /\ 1 \in DOMAIN heap
    /\ heap[1].initialized_
    /\ heap[1].outboundStream_.opcodeEncrypted_
    /\ heap[1].outboundStream_.encryptedOpcodes_ = (5 :> 204)


\* the 3DES decryption yields less than the blob (no whole block)
DesFailed(text) == Len(DesDecrypt(DesEncrypt(text), Len(text))) < Len(text)

\* the scan stops before the last token
ScanFailed(text) == ValidCount(TokensOf(text)) < Len(TokensOf(text))

RemapFailed(text) == DesFailed(text) \/ ScanFailed(text)

\* the 0x46 packet was emitted for the session
RemapEmitted(id, text) ==
    \E i \in 1..Len(emitted) :
        /\ emitted[i].sessionId = id
        /\ IsDecoded(emitted[i]) /\ ~emitted[i].outbound
        /\ emitted[i].opcode = 70
        /\ emitted[i].payload = Drop(RemapPlain(text), 2)

\* the outbound packets carry the opcodes of their frames
OpcodesUnchanged(pkts) ==
    \A j \in 1..Len(pkts) : pkts[j].opcode = U16LE(OutPlains[j], 0)

\* C30: when the blob of an inbound 0x46 packet fails to parse (3DES
\* failure, a token that is no number, a repeated value), the table installed
\* on the outbound stream is empty, the 0x46 packet is still emitted, both
\* streams go on framing and morphing their IVs, and outbound opcodes are
\* emitted unchanged.
C30_FailedRemapIsEmpty ==
    \A id \in DOMAIN heap :
        (heap[id].initialized_ /\ RemapFailed(input)) =>
            /\ heap[id].outboundStream_.encryptedOpcodes_ = EmptyMap
            /\ RemapEmitted(id, input)
            /\ OpcodesUnchanged(DecodedOf(emitted, id, TRUE))

\* the opcode a table gives for a raw opcode
Remapped(map, opcode) == IF opcode \in DOMAIN map THEN map[opcode] ELSE opcode

\* the inbound stream has decoded the 0x46 frame and the frame behind it
InboundGoesOn(id, s, pkts) ==
    /\ Len(pkts) = 2
    /\ pkts[2].opcode = U16LE(InPlains[2], 0)
    /\ pkts[2].payload = Drop(InPlains[2], 2)
    /\ s.aes.iv = IvAfter(Endpoint.remoteIV, 2)

\* the outbound stream decodes the client's frames in order, replacing the
\* opcodes the table holds and no others
OutboundGoesOn(s, pkts) ==
    /\ s.aes.iv = IvAfter(Endpoint.localIV, Len(pkts))
    /\ \A j \in 1..Len(pkts) :
           /\ pkts[j].payload = Drop(OutPlains[j], 2)
           /\ pkts[j].opcode = Remapped(s.encryptedOpcodes_, U16LE(OutPlains[j], 0))

\* C30 (amended): on such a failure the outbound stream's table holds the
\* entries of the tokens before the failing one (none if the first token
\* fails or the decryption yields nothing), the 0x46 packet is emitted, both
\* streams go on framing and morphing, and the outbound opcodes that are no
\* key of the table are emitted unchanged.
C30_FailedRemapKeepsPrefix ==
    \A id \in DOMAIN heap :
        (heap[id].initialized_ /\ RemapFailed(input)) =>
            /\ heap[id].outboundStream_.opcodeEncrypted_
            /\ IsRemapOf(heap[id].outboundStream_.encryptedOpcodes_, TokensOf(input),
                         ValidCount(TokensOf(input)))
            /\ (DesFailed(input) \/ ~Accepted(TokensOf(input), 1)) =>
                   heap[id].outboundStream_.encryptedOpcodes_ = EmptyMap
            /\ RemapEmitted(id, input)
            /\ InboundGoesOn(id, heap[id].inboundStream_, DecodedOf(emitted, id, FALSE))
            /\ OutboundGoesOn(heap[id].outboundStream_, DecodedOf(emitted, id, TRUE))

\* the text 5|5: the table holds 5 alone, the client's opcode 5 was replaced
\* and its opcode 9 was not
C30_Witness ==
    /\ input = Padded(<< 53, 124, 53 >>)
    /\ 1 \in DOMAIN heap
    /\ heap[1].initialized_
    /\ Len(DecodedOf(emitted, 1, TRUE)) = 2
    /\ DecodedOf(emitted, 1, TRUE)[1].opcode = 204
    /\ DecodedOf(emitted, 1, TRUE)[2].opcode = 9


-----------------------------------------------------------------------------
(* Transforms and IVs of the streams a handshake creates (SpecHs)          *)

\* the IVs of a handshake as the wire format lays them out
WireLocalIV(p) ==
    IF U16LE(p, 0) > 16 THEN SubSeq(p, 7 + U16LE(p, 4), 10 + U16LE(p, 4))
    ELSE SubSeq(p, 9, 12)

WireRemoteIV(p) ==
    IF U16LE(p, 0) > 16 THEN SubSeq(p, 11 + U16LE(p, 4), 14 + U16LE(p, 4))
    ELSE SubSeq(p, 13, 16)

\* server_locale == 6 and no ':' in patch_location
WireExtraCipher(p) ==
    /\ WireLocale(p) = 6
    /\ \A i \in 1..Len(WireSubVersion(p)) : WireSubVersion(p)[i] # 58

\* the packets of one direction decoded in a call
DecodedIn(pkts, outbound) ==
    SelectSeq(pkts, LAMBDA q : IsDecoded(q) /\ q.outbound = outbound)

\* the ciphertext of the first frame behind the handshake, for a packet of
\* n decrypted bytes
FirstCipher(p, n) == SubSeq(Drop(p, 2 + U16LE(p, 0)), 5, 4 + n)

\* the first inbound packet is the frame's ciphertext with iv[0] of the
\* handshake's remote IV subtracted from every byte (data shift), or the AES
\* transform of it under that IV
FirstDecoded(p, pkt, shift, aes) ==
    IF shift
    THEN plainOf(pkt) = [i \in 1..Len(plainOf(pkt)) |->
                            (FirstCipher(p, Len(plainOf(pkt)))[i] + 256
                                 - WireRemoteIV(p)[1]) % 256]
    ELSE plainOf(pkt) = transformAES([aes EXCEPT !.iv = WireRemoteIV(p)],
                                     FirstCipher(p, Len(plainOf(pkt))))

StreamsOf(p, after, pkts) ==
    /\ ~after.outboundStream_.useNewDataShift_
    /\ after.outboundStream_.aes.iv
           = IvAfter(WireLocalIV(p), Len(DecodedIn(pkts, TRUE)))
    /\ after.inboundStream_.useNewDataShift_ = WireExtraCipher(p)
    /\ after.inboundStream_.aes.iv
           = IvAfter(WireRemoteIV(p), Len(DecodedIn(pkts, FALSE)))
    /\ Len(DecodedIn(pkts, FALSE)) > 0 =>
           FirstDecoded(p, DecodedIn(pkts, FALSE)[1], WireExtraCipher(p),
                        after.inboundStream_.aes)

\* C31: after a handshake the outbound stream uses the AES transform with
\* the local IV, the inbound stream starts from the remote IV and uses the
\* data shift exactly when the locale is 6 and the patch string has no ':'
\* (the AES transform otherwise); under the data shift a payload byte b is
\* decoded as (b - iv[0]) mod 256 with the IV in force before the morph.
C31_StreamTransforms ==
    [][ (budget' # budget /\ isData(lastSeg') /\ ~Before(lastSeg').initialized_
            /\ heap'[Before(lastSeg').sessionId_].initialized_) =>
            StreamsOf(Pending(lastSeg'), heap'[Before(lastSeg').sessionId_], results')
      ]_vars

\* the handshake with locale 6 and patch string 1234 arrived with the frame
\* behind it: the inbound stream uses the data shift and has decoded the frame
C31_Witness ==
    /\ lastSeg = HsData(HsStreams[1], 0, Len(HsStreams[1]))
    /\ Len(results) = 2
    /\ results[1].isHandshake
    /\ results[2].opcode = 17
    /\ results[2].payload = << 161 >>
    /\ heap[1].inboundStream_.useNewDataShift_
    /\ ~heap[1].outboundStream_.useNewDataShift_

-----------------------------------------------------------------------------
(* MapleAES::transformAES, one loop iteration at a time                    *)

MaxXorCalls == 2
ChunkWindow == 2

\* payload lengths around the sizes where the chunking changes: nothing,
\* one block, the first chunk (1452 and 1456), a later chunk (1460), the
\* whole table (1472), two and three chunks, and the big-packet mark 0xFF00
ChunkEdges ==
    { 0, 16, 1452, 1456, 1460, 1472, 1456 + 1460, 1456 + 2 * 1460, 65280,
      1452 + 44 * 1460 }

DataSizes ==
    { e + d : e \in ChunkEdges, d \in (0 - ChunkWindow)..ChunkWindow } \cap Nat

\* the call's entry, up to the first test of the while loop
XorStart(dataSize) ==
    /\ budget > 0
    /\ aesLoop = NoLoop
    /\ budget' = budget - 1
    /\ aesLoop' = [dataSize |-> dataSize,
                   requiredBlocks |-> requiredBlocks(dataSize),
                   blockSize |-> firstChunk(dataSize),
                   pos |-> 0,
                   chunks |-> << >>]
    /\ UNCHANGED << tableVars, results, emitted, crashed, streamVars,
                    reasmVars, trace, threadVars, arrived, app, reply >>

\* one iteration of while (pos < dataSize): the bytes pos..pos+blockSize-1
\* are XORed with the table's bytes 0..blockSize-1
XorChunk ==
    /\ aesLoop # NoLoop
    /\ aesLoop.pos < aesLoop.dataSize
    /\ aesLoop' =
           [aesLoop EXCEPT
                !.chunks = Append(@, [pos |-> aesLoop.pos,
                                      size |-> aesLoop.blockSize,
                                      firstIdx |-> 0,
                                      lastIdx |-> aesLoop.blockSize - 1]),
                !.pos = @ + aesLoop.blockSize,
                !.blockSize = nextChunk(aesLoop.dataSize,
                                        aesLoop.pos + aesLoop.blockSize)]
    /\ UNCHANGED << tableVars, results, emitted, budget, crashed, streamVars,
                    reasmVars, trace, threadVars, arrived, app, reply >>

\* the loop's exit and the call's return
XorReturn ==
    /\ aesLoop # NoLoop
    /\ ~(aesLoop.pos < aesLoop.dataSize)
    /\ aesLoop' = NoLoop
    /\ UNCHANGED << tableVars, results, emitted, budget, crashed, streamVars,
                    reasmVars, trace, threadVars, arrived, app, reply >>

InitChunks ==
    /\ InitTable
    /\ InitOther
    /\ budget = MaxXorCalls

NextChunks ==
    \/ \E dataSize \in DataSizes : XorStart(dataSize)
    \/ XorChunk
    \/ XorReturn

SpecChunks == InitChunks /\ [][NextChunks]_vars

RECURSIVE SumSizes(_)
SumSizes(chunks) ==
    IF chunks = << >> THEN 0
    ELSE chunks[Len(chunks)].size + SumSizes(SubSeq(chunks, 1, Len(chunks) - 1))

\* chunk i starts where the chunks before it end, is not empty, has the
\* first chunk's or a later chunk's size, reads the table from index 0, and
\* reads no table byte that was not generated
ChunkOk(loop, i) ==
    LET c == loop.chunks[i]
    IN  /\ c.pos = SumSizes(SubSeq(loop.chunks, 1, i - 1))
        /\ c.size > 0
        /\ IF i = 1
           THEN c.size = Min(loop.dataSize,
                             IF loop.dataSize >= 65280 THEN 1452 ELSE 1456)
           ELSE c.size <= 1460
        /\ c.firstIdx = 0
        /\ xorIndex(c.pos, loop.dataSize) = 0
        /\ xorIndex(c.pos + c.size - 1, loop.dataSize) = c.size - 1
        /\ c.lastIdx < loop.requiredBlocks * 16

\* C32: for every payload length the first chunk has min(L, 1456) bytes
\* (min(L, 1452) from 0xFF00 on) and every later one at most 1460; the chunks
\* follow each other without gap or overlap and, when the loop ends, add up
\* to exactly L; the keystream index restarts at 0 in every chunk; at most
\* 92 keystream blocks are generated and no chunk reads beyond them
C32_ChunkedXor ==
    aesLoop # NoLoop =>
        /\ aesLoop.requiredBlocks <= 92
        /\ aesLoop.pos = SumSizes(aesLoop.chunks)
        /\ aesLoop.pos <= aesLoop.dataSize
        /\ \A i \in 1..Len(aesLoop.chunks) : ChunkOk(aesLoop, i)
        /\ ~(aesLoop.pos < aesLoop.dataSize) => aesLoop.pos = aesLoop.dataSize

\* a payload of 0xFF00 + 1 bytes was XORed to its end: a first chunk of 1452
\* bytes, 43 chunks of 1460 and a last one of 1049
C32_Witness ==
    /\ aesLoop # NoLoop
    /\ aesLoop.dataSize = 65281
    /\ aesLoop.pos = 65281
    /\ Len(aesLoop.chunks) = 45
    /\ aesLoop.chunks[1].size = 1452
    /\ aesLoop.chunks[2].size = 1460
    /\ aesLoop.chunks[45].size = 1049
    /\ aesLoop.requiredBlocks = 92

-----------------------------------------------------------------------------
(* Oversized payload lengths                                               *)

\* the buffer starts with a whole header that passes the header check and
\* declares more than 16 MiB of payload
Oversized(s) ==
    /\ s # NoStream
    /\ cursor_(s) >= s.expectedDataSize_
    /\ confirmHeader(s.aes, s.buffer_)
    /\ cursor_(s) >= getHeaderLength(s.buffer_)
    /\ getPacketLength(s.buffer_, cursor_(s)) > 16 * 1024 * 1024

\* C33: a tryRead that finds a header which passes the header check and
\* declares a payload length above the sanity limit of 16 MiB makes the
\* stream Dead instead of waiting for the bytes, and header_len +
\* payload_len is not computed with signed 32-bit overflow (the process
\* goes on).
C33_OversizedIsDead ==
    [][ (input' = input /\ Oversized(stream)) =>
            /\ ~crashed'
            /\ stream' = tryRead(stream).stream
            /\ isDead(tryReadDead(stream).stream)
            /\ ~tryRead(stream).ub ]_vars

-----------------------------------------------------------------------------
(* The handshake packet of a session                                       *)

\* the places of the packets of session id among the packets emitted so far
EmittedOf(id) == { i \in 1..Len(emitted) : emitted[i].sessionId = id }

HandshakesOf(id) == { i \in EmittedOf(id) : emitted[i].isHandshake }

\* at most one handshake packet, and no packet of the session before it
HandshakeFirst(id) ==
    /\ Cardinality(HandshakesOf(id)) <= 1
    /\ \A i \in EmittedOf(id) : \E h \in HandshakesOf(id) : h <= i

\* a data call on an initialized session returns no handshake packet and
\* leaves alone what the detector writes: the buffered inbound bytes, the
\* version fields, the IVs and the identity of the two streams
DetectorNotRun(before, after, pkts) ==
    /\ \A i \in 1..Len(pkts) : ~pkts[i].isHandshake
    /\ after.initialized_
    /\ after.pendingInbound_ = before.pendingInbound_
    /\ after.version_ = before.version_
    /\ after.locale_ = before.locale_
    /\ after.sendIV_ = before.sendIV_
    /\ after.recvIV_ = before.recvIV_
    /\ after.inboundStream_.aes.aesKey = before.inboundStream_.aes.aesKey
    /\ after.outboundStream_.aes.aesKey = before.outboundStream_.aes.aesKey

InitializedCall ==
    (budget' # budget /\ isData(lastSeg') /\ Before(lastSeg').initialized_) =>
        DetectorNotRun(Before(lastSeg'), heap'[Before(lastSeg').sessionId_],
                       results')

\* C34: for every session id at most one handshake packet is ever emitted
\* and it precedes every other packet with that id (no decrypted packet and
\* no desync notice comes before it), and a call on an initialized session
\* does not run the handshake detector again.
C34_OneHandshakeFirst ==
    /\ [](\A id \in 1..(nextSessionId_ - 1) : HandshakeFirst(id))
    /\ [][InitializedCall]_vars

\* the handshake, a client frame, and then the handshake segment once more:
\* the session stays with its one handshake packet in front
C34_Witness ==
    /\ lastSeg = ServerData(PortA.port, 0, HsLen)
    /\ Len(emitted) = 2
    /\ emitted[1].isHandshake
    /\ IsDecoded(emitted[2])
    /\ emitted[2].sessionId = emitted[1].sessionId
    /\ results = << >>
    /\ budget = MaxConnCalls - 3
    /\ heap[emitted[1].sessionId].initialized_

-----------------------------------------------------------------------------
(* Inbound bytes the detector can never accept                             *)

\* a Nascent session whose buffered inbound bytes carry a string length
\* above 100 or a locale byte out of range
Stuck(sess) ==
    /\ ~sess.initialized_
    /\ \/ WireLongString(sess.pendingInbound_)
       \/ WireBadLocale(sess.pendingInbound_)

\* a Nascent session keeps its buffered inbound bytes, from offset 0 on
KeepsPrefix(before, after) ==
    ~after.initialized_ => IsPrefix(before.pendingInbound_, after.pendingInbound_)

\* a call that leaves the session Nascent leaves it every inbound byte it
\* was given so far, the call's payload last
NothingDiscarded ==
    (NascentCall(lastSeg') /\ ~heap'[Before(lastSeg').sessionId_].initialized_) =>
        heap'[Before(lastSeg').sessionId_].pendingInbound_ = Pending(lastSeg')

StuckForever ==
    \A id \in DOMAIN heap :
        (id \in DOMAIN heap' /\ ~heap[id].initialized_) =>
            /\ KeepsPrefix(heap[id], heap'[id])
            /\ Stuck(heap[id]) => Stuck(heap'[id])

\* C35: the detector parses the buffered inbound bytes from offset 0 and a
\* rejection discards none of them, so a Nascent session whose buffered
\* prefix was rejected for a locale out of range or a string longer than 100
\* stays Nascent whatever inbound bytes arrive later, a well-formed
\* handshake included.
C35_RejectedPrefixStays == [][StuckForever /\ NothingDiscarded]_vars

\* a handshake with locale 0x13 was rejected, and two well-formed handshakes
\* that arrived behind it are buffered with it
C35_Witness ==
    /\ 1 \in DOMAIN heap
    /\ Stuck(heap[1])
    /\ heap[1].pendingInbound_ = NascentStreams[3] \o HandshakeBytes \o HandshakeBytes
    /\ lastSeg = HsData(HandshakeBytes, 0, Len(HandshakeBytes))
    /\ emitted = << >>
    /\ budget = 0

-----------------------------------------------------------------------------
(* The bytes of the handshake fields                                       *)

\* the number of leading bytes the fields of the handshake take: up to the
\* locale byte of the form the size selects
FieldsEnd(p) == WireLocaleAt(p)

\* the call that detects the handshake finds every field inside the first
\* 2 + size bytes, so the bytes left for the inbound stream hold none of them
FieldsInside(p) ==
    /\ FieldsEnd(p) <= 2 + U16LE(p, 0)
    /\ Len(Drop(p, hsTotalOf(p))) <= Len(p) - FieldsEnd(p)

\* C36: a handshake is accepted only if every field read (version, patch
\* location, local IV, remote IV, server locale) lies inside the first
\* 2 + size bytes of the buffered inbound bytes, so that no field byte is
\* also fed to the inbound stream as the remainder.
C36_FieldsInsideFrame ==
    [][ (NascentCall(lastSeg') /\ heap'[Before(lastSeg').sessionId_].initialized_) =>
            FieldsInside(Pending(lastSeg'))
      ]_vars

-----------------------------------------------------------------------------
(* One direction desynchronizes, the other goes on                         *)

\* a stream without its opcode table
Cipher(s) == [s EXCEPT !.opcodeEncrypted_ = FALSE, !.encryptedOpcodes_ = EmptyMap]

\* the session with the stream of one direction as it would be had it not
\* failed: alive, with nothing buffered
Healthy(sess, outbound) ==
    setStream(sess, outbound,
              [streamOf(sess, outbound) EXCEPT !.dead_ = FALSE,
                                               !.buffer_ = << >>,
                                               !.expectedDataSize_ = 4])

\* a call on an initialized session for a segment of one direction leaves
\* the other direction's reassembler and stream as they were: IV, buffer,
\* cursor and, unless an inbound 0x46 packet was decoded, the opcode table
OtherUntouched(before, fromServer, after, pkts) ==
    /\ reasmOf(after, ~fromServer) = reasmOf(before, ~fromServer)
    /\ Cipher(streamOf(after, fromServer)) = Cipher(streamOf(before, fromServer))
    /\ (\A i \in 1..Len(pkts) : ~(IsDecoded(pkts[i]) /\ pkts[i].opcode = 70)) =>
           streamOf(after, fromServer) = streamOf(before, fromServer)

\* the packets decoded by a call, and the stream and the reassembler of the
\* segment's direction after it, are the ones of a session whose other
\* direction never failed
GoesOn(before, seg, after, pkts) ==
    LET fromServer == isFromServer(before, seg)
        twin == processSegment(Healthy(before, fromServer), seg)
    IN  /\ SelectSeq(pkts, IsDecoded) = SelectSeq(twin.results, IsDecoded)
        /\ streamOf(after, ~fromServer) = streamOf(twin.session, ~fromServer)
        /\ reasmOf(after, fromServer) = reasmOf(twin.session, fromServer)

OtherDirection ==
    (budget' # budget /\ isData(lastSeg') /\ Before(lastSeg').initialized_) =>
        /\ OtherUntouched(Before(lastSeg'),
                          isFromServer(Before(lastSeg'), lastSeg'),
                          heap'[Before(lastSeg').sessionId_], results')
        /\ isDead(streamOf(Before(lastSeg'),
                           isFromServer(Before(lastSeg'), lastSeg'))) =>
               GoesOn(Before(lastSeg'), lastSeg',
                      heap'[Before(lastSeg').sessionId_], results')

\* C37: the desynchronization of one direction's stream leaves the other
\* direction of the session untouched (IV, buffer, cursor, opcode table and
\* reassembler are not changed by the failing call), and the other direction
\* decodes and emits the packets of the segments that arrive afterwards as
\* if the failure had not happened.
C37_OtherDirectionGoesOn == [][OtherDirection]_vars

\* the client's stream failed on garbage and its notice was emitted; the
\* server's second frame, staged by an earlier call, is decoded and emitted
\* by the call that brings the third
C37_Witness ==
    /\ lastSeg = ServerData(PortA.port, InFrame3, InEnd)
    /\ 1 \in DOMAIN heap
    /\ heap[1].initialized_
    /\ isDead(heap[1].outboundStream_)
    /\ ~isDead(heap[1].inboundStream_)
    /\ Len(NoticesOf(emitted, 1, TRUE)) = 1
    /\ Len(results) = 1
    /\ IsDecoded(results[1])
    /\ ~results[1].outbound
    /\ results[1].opcode = 17
    /\ emitted[Len(emitted) - 1].isDeadNotification

-----------------------------------------------------------------------------
(* SpecDeliver: the inbound reassembler of an initialized session          *)

MaxDeliverCalls == 4

\* the stream offsets a segment carries
SegOffsets(seg) ==
    { SeqToInt(SeqSub(seg.seq, HoldBase)) + i - 1 : i \in 1..Len(seg.payload) }

\* processSegment after the handshake, for a segment of the server: the
\* segment is staged and the reassembler is drained with holdLast = true
StageInbound(seg) ==
    /\ budget > 0
    /\ budget' = budget - 1
    /\ LET d == drain(addSegment(reasm, seg.seq, seg.payload), holdPolicy(TRUE))
       IN  /\ reasm' = d.reasm
           /\ drained' = drained \o d.result
    /\ lastSeg' = seg
    /\ arrived' = arrived \cup SegOffsets(seg)
    /\ UNCHANGED << sessions_, heap, nextSessionId_, results, emitted, crashed,
                    streamVars, trace, threadVars, aesLoop, app, reply >>

InitDeliver ==
    /\ InitTable
    /\ crashed = FALSE
    /\ InitStream
    /\ reasm = init(NewReasm, HoldBase)
    /\ drained = << >>
    /\ trace = NoTrace
    /\ budget = MaxDeliverCalls

NextDeliver == \E seg \in HoldMenu : StageInbound(seg)

SpecDeliver == InitDeliver /\ [][NextDeliver]_vars

\* one segment is staged, it covers nextSeq and was held back
Withheld(r) ==
    /\ Cardinality(DOMAIN r.staged) = 1
    /\ Deliverable(r) = DOMAIN r.staged

HeldKey(r) == CHOOSE k \in DOMAIN r.staged : TRUE

HeldEnd(r) == SeqAdd(HeldKey(r), Len(r.staged[HeldKey(r)]))

\* the segment carries stream bytes that no earlier segment carried
NewBytes(seg) == SegOffsets(seg) \ arrived # {}

\* every stream byte before `end` was handed over
DeliveredTo(r, end) == SignedLeq0(SeqSub(end, r.nextSeq))

\* the number of stream bytes handed over so far
DeliveredCount == SeqToInt(SeqSub(reasm.nextSeq, HoldBase))

\* the bytes that arrived form the stream's beginning, without a gap
NoGap == \A i \in arrived : \A j \in 0..i : j \in arrived

\* what was handed over is the stream's beginning; and when the bytes that
\* arrived have no gap, the ones not handed over lie in the one segment held
\* back, which ends where the stream ends
OnlyFinalHeld ==
    /\ drained = [i \in 1..DeliveredCount |-> 65 + i - 1]
    /\ (NoGap /\ arrived \ (0..(DeliveredCount - 1)) # {}) =>
           /\ Withheld(reasm)
           /\ \A i \in arrived : i < SeqToInt(SeqSub(HeldEnd(reasm), HoldBase))
           /\ SeqToInt(SeqSub(HeldEnd(reasm), HoldBase)) - 1 \in arrived

\* C38 as stated: under hold_last = true a contiguous segment that was held
\* back as the last staged one is delivered by the drain that follows the
\* staging of any later segment carrying new stream bytes.
C38_HeldUntilNewBytes ==
    [][ (budget' # budget /\ Withheld(reasm) /\ NewBytes(lastSeg')) =>
            DeliveredTo(reasm', HeldEnd(reasm)) ]_vars

\* a later segment with new bytes releases the held segment if it is staged
\* under another sequence number, and takes its place, held back in turn, if
\* it has the same one
ReleasedOrReplaced ==
    (budget' # budget /\ Withheld(reasm) /\ NewBytes(lastSeg')) =>
        IF lastSeg'.seq = HeldKey(reasm)
        THEN /\ reasm'.staged = (lastSeg'.seq :> lastSeg'.payload)
             /\ reasm'.nextSeq = reasm.nextSeq
             /\ drained' = drained
        ELSE /\ DeliveredTo(reasm', HeldEnd(reasm))
             /\ Len(drained') > Len(drained)

\* C38, amended: the held segment is delivered by the drain that follows the
\* staging of a later segment with new stream bytes under another sequence
\* number, while a longer segment with the same sequence number replaces it
\* and is held back in its place; if the bytes that arrived have no gap,
\* only bytes of the one held segment, the last of the stream, are
\* undelivered.
C38_HeldUntilOtherSeq == []OnlyFinalHeld /\ [][ReleasedOrReplaced]_vars

\* three segments arrived: A,B,C were delivered by the drain that followed
\* the staging of D, and D is held back
C38_Witness ==
    /\ lastSeg = HoldSegment(3, 1)
    /\ budget = MaxDeliverCalls - 3
    /\ drained = << 65, 66, 67 >>
    /\ arrived = 0..3
    /\ reasm.staged = (SeqAdd(HoldBase, 3) :> << 68 >>)

-----------------------------------------------------------------------------
(* App: the packet store                                                   *)

MAX_PACKETS == 500

\* for (const auto& s : sessions_) if (s.id == pkt.sessionId) found = true
knownSession(metas, id) == \E i \in 1..Len(metas) : metas[i].id = id

\* track session info from handshake packets
trackSession(metas, pkt) ==
    IF pkt.isHandshake /\ pkt.version > 0 /\ ~knownSession(metas, pkt.sessionId)
    THEN Append(metas, [id |-> pkt.sessionId, locale |-> pkt.locale,
                        version |-> pkt.version, subVersion |-> pkt.subVersionStr,
                        serverPort |-> pkt.serverPort, dead |-> FALSE])
    ELSE metas

\* mark the first session with the packet's id dead on a desync notification
markSessionDead(metas, pkt) ==
    IF pkt.isDeadNotification /\ knownSession(metas, pkt.sessionId)
    THEN LET first == CHOOSE i \in 1..Len(metas) :
                          /\ metas[i].id = pkt.sessionId
                          /\ \A j \in 1..(i - 1) : metas[j].id # pkt.sessionId
         IN  [metas EXCEPT ![first].dead = TRUE]
    ELSE metas

\* if (packets_.size() > MAX_PACKETS) { packets_.pop_front(); baseSeq_++; }
evict(a) ==
    IF Len(a.packets_) > MAX_PACKETS
    THEN [a EXCEPT !.packets_ = Tail(@), !.baseSeq_ = @ + 1]
    ELSE a

\* the body of the loop of addPackets for one packet
pushPacket(a, pkt) ==
    evict([a EXCEPT !.sessions_ = markSessionDead(trackSession(@, pkt), pkt),
                    !.packets_ = Append(@, pkt),
                    !.nextPacketSeq_ = @ + 1])

RECURSIVE addPackets(_, _)
\* for (const auto& pkt : pkts) { ... }
addPackets(a, pkts) ==
    IF pkts = << >> THEN a ELSE addPackets(pushPacket(a, pkts[1]), Tail(pkts))

\* static_cast<uint64_t>(since) of a negative int is 2^64 + since, and
\* sinceSeq - baseSeq_ is then above every size of the deque, also after the
\* cast to a 32-bit size_t; the value stands for any such offset
startOffset(a, since) ==
    IF since < 0 THEN Int32Max
    ELSE IF since > a.baseSeq_ THEN since - a.baseSeq_
    ELSE 0

\* the JSON object of the packet at deque position i (0-based)
pktJson(a, i) ==
    LET pkt == a.packets_[i + 1]
    IN  [index |-> a.baseSeq_ + i,
         length |-> pkt.length,
         outbound |-> pkt.outbound,
         isHandshake |-> pkt.isHandshake,
         sessionId |-> pkt.sessionId,
         opcodeRaw |-> IF pkt.isHandshake THEN 0 ELSE pkt.opcode,
         handshake |-> IF pkt.isHandshake
                       THEN << [version |-> pkt.version,
                                subVersion |-> pkt.subVersionStr,
                                locale |-> pkt.locale] >>
                       ELSE << >>,
         decrypted |-> ~pkt.isHandshake]

\* the array of getPackets: the packets from startOffset to the deque's end
getPackets(a, since) ==
    IF startOffset(a, since) < Len(a.packets_)
    THEN [n \in 1..(Len(a.packets_) - startOffset(a, since)) |->
              pktJson(a, startOffset(a, since) + n - 1)]
    ELSE << >>

\* packets_.clear(); sessions_.clear(); nextPacketSeq_ = 0; baseSeq_ = 0
startCapture(a, iface) ==
    IF iface = << >> THEN a
    ELSE [a EXCEPT !.packets_ = << >>, !.sessions_ = << >>,
                   !.nextPacketSeq_ = 0, !.baseSeq_ = 0]

MaxAppCalls == 4

\* the store starts empty or with this many packets less than MAX_PACKETS
StoreRoom == 2

\* what the capture hands over in one call: the handshake of session 1, a
\* packet of session 1 with its dead notice, the handshake of session 2, and
\* three packets of session 1
AppHandshake(id) ==
    [DecryptedPacket(FALSE, 65535, << >>, 19) EXCEPT
        !.isHandshake = TRUE, !.version = 263, !.subVersionStr = << 49 >>,
        !.locale = 6, !.sessionId = id, !.serverPort = 8484]

AppPacket(opcode) ==
    [DecryptedPacket(TRUE, opcode, << >>, 0) EXCEPT !.sessionId = 1,
                                                     !.serverPort = 8484]

AppNotice ==
    [DecryptedPacket(TRUE, 0, << >>, 0) EXCEPT
        !.isDeadNotification = TRUE, !.sessionId = 1, !.serverPort = 8484]

Batches ==
    { << AppHandshake(1) >>, << AppPacket(5), AppNotice >>, << AppHandshake(2) >>,
      << AppPacket(6), AppPacket(7), AppPacket(8) >> }

\* the packets of n addPackets calls with one packet of session 1 each, and
\* the store after them when n <= MAX_PACKETS: nothing was evicted
FillPackets(n) == [i \in 1..n |-> AppPacket(i)]

Filled(n) ==
    [packets_ |-> FillPackets(n), sessions_ |-> << >>, nextPacketSeq_ |-> n,
     baseSeq_ |-> 0]

\* the arguments of getPackets: a negative one, the first sequence number, one
\* inside the store, the first one that eviction can pass, and one beyond
Sinces == { -1, 0, 3, MAX_PACKETS, 2 * MAX_PACKETS }

Ifaces == { << >>, << 101, 116, 104, 48 >> }

AppStep ==
    /\ budget > 0
    /\ budget' = budget - 1
    /\ UNCHANGED << tableVars, results, crashed, streamVars, reasmVars, trace,
                    threadVars, aesLoop, arrived >>

\* App::addPackets(pkts); `emitted` keeps every packet added since the reset
StoreAddPackets(pkts) ==
    /\ AppStep
    /\ app' = addPackets(app, pkts)
    /\ emitted' = emitted \o pkts
    /\ UNCHANGED reply

\* App::getPackets(since)
StoreGetPackets(since) ==
    /\ AppStep
    /\ reply' = [serial |-> reply.serial + 1, since |-> since,
                 items |-> getPackets(app, since)]
    /\ UNCHANGED << app, emitted >>

\* App::startCapture(iface, filter)
StoreStartCapture(iface) ==
    /\ AppStep
    /\ app' = startCapture(app, iface)
    /\ emitted' = IF iface = << >> THEN emitted ELSE << >>
    /\ UNCHANGED reply

InitStore ==
    /\ InitThreads
    /\ InitIdle
    /\ InitSessions
    /\ InitOther
    /\ budget = MaxAppCalls
    /\ \E n \in { 0, MAX_PACKETS - StoreRoom } :
           /\ app = Filled(n)
           /\ emitted = FillPackets(n)

NextStore ==
    \/ \E pkts \in Batches : StoreAddPackets(pkts)
    \/ \E since \in Sinces : StoreGetPackets(since)
    \/ \E iface \in Ifaces : StoreStartCapture(iface)

SpecStore == InitStore /\ [][NextStore]_vars

\* the sequence number of a packet is its place (from 0) among the packets
\* added since the reset; the store holds the newest ones, at most
\* MAX_PACKETS, and its counters say which
StoreInvariant ==
    /\ Len(app.packets_) <= MAX_PACKETS
    /\ app.baseSeq_ + Len(app.packets_) = app.nextPacketSeq_
    /\ app.nextPacketSeq_ = Len(emitted)
    /\ app.packets_ = SubSeq(emitted, app.baseSeq_ + 1, Len(emitted))
    /\ app.baseSeq_ = IF Len(emitted) > MAX_PACKETS
                      THEN Len(emitted) - MAX_PACKETS ELSE 0

\* the sequence numbers of the retained packets that are >= since
RetainedFrom(since) ==
    { q \in app.baseSeq_..(app.nextPacketSeq_ - 1) : q >= since }

\* the array holds exactly the retained packets from since on, each with its
\* sequence number as index, in increasing order
ExactReply(since, items) ==
    /\ Len(items) = Cardinality(RetainedFrom(since))
    /\ \A n \in 1..Len(items) :
           /\ items[n].index \in RetainedFrom(since)
           /\ items[n].sessionId = emitted[items[n].index + 1].sessionId
           /\ items[n].isHandshake = emitted[items[n].index + 1].isHandshake
           /\ items[n].opcodeRaw = IF emitted[items[n].index + 1].isHandshake THEN 0
                                   ELSE emitted[items[n].index + 1].opcode
           /\ n > 1 => items[n - 1].index < items[n].index

RepliesExactly ==
    reply'.serial # reply.serial => ExactReply(reply'.since, reply'.items)

\* a startCapture call that gets to start a capture empties the store
ResetsStore ==
    (budget' # budget /\ reply' = reply /\ emitted' = << >>) => app' = NewApp

=============================================================================
